---- MODULE Spec2Model ----
(***************************************************************************)
(* Verification model of syncopa-core: the worker pool (Pool.Run, the      *)
(* executor's RunTask, the Report aggregator) and the scanner (Scan, the   *)
(* copy batcher, the mirror and sync passes).                              *)
(***************************************************************************)
EXTENDS Integers, Sequences, FiniteSets, TLC

\* ------------------------------------------------------------------ bounds
\* Largest worker count handed to New (0 is normalised to 1 by New).
MaxWorkers == 2
\* Largest number of tasks the producer sends before closing the channel.
MaxTasks == 3

VARIABLES
    \* ---- worker pool (Pool.Run)
    Workers,        \* p.Workers
    toSend,         \* tasks the producer still has to send on the task channel
    sent,           \* number of tasks the producer has sent (each received by a worker)
    tasksClosed,    \* the producer closed the task channel
    wpc,            \* per worker: position in the worker goroutine
    wout,           \* per worker: (res, err) returned by RunTask
    results,        \* buffered channel of *TaskReport (capacity p.Workers)
    resultsClosed,
    errs,           \* buffered channel of error (capacity p.Workers)
    errsClosed,
    report,         \* the *Report built by the collector
    cpc,            \* collector goroutine position
    mpc,            \* Pool.Run's own position
    firstErr,       \* local firstErr of Pool.Run
    ret,            \* what Pool.Run returned
    errLog,         \* history: the errors in the order workers reported them
    executed,       \* history: the tasks RunTask was called on, with outcome
    \* ---- scanner (Scan)
    fsys,           \* the file system: the source tree and the destination tree
    args,           \* Scan's arguments src, dst, includeDir, mode, opts
    spc,            \* Scan's position
    sc,             \* Scan's locals fixed before the first loop
    idx,            \* index of the range loop Scan is in
    pending,        \* keys the range over the dstFiles map has not produced yet
    batcher,        \* the copyBatcher
    tasks,          \* the tasks sent on the channel so far, in order
    scanErr,        \* the error Scan returned
    previous,       \* the stream and result of the previous invocation
    \* ---- the batcher called directly, and the executor on a batch
    call,           \* the last call of the batcher: Add or Flush and its arguments
    run,            \* what Executor.copyBatch did with a task of the stream
    \* ---- a Report used directly, and copyFile called directly
    heap,           \* the backing arrays of the slices the Reports hold
    rep,            \* a Report, the Report restored from its snapshot, the calls
    cf,             \* a call of Executor.RunTask on a Copy task and its outcome
    \* ---- the batch tuner called directly
    tuning,         \* a call of the tuner: the CLI's inputs, the source files, the result
    \* ---- the arrays behind the batcher and behind the tasks it sent
    store,          \* the slices b.buf and b.entries, and those of each CopyBatch sent
    \* ---- copyWithBandwidth under a limit, in two goroutines at once
    pace,           \* the clock, the executor's limit, the locals of each copy
    \* ---- Config.AgentAllowedTokens called directly
    conf            \* the Config, the agent asked for, the tokens returned

poolVars == <<Workers, toSend, sent, tasksClosed, wpc, wout, results,
              resultsClosed, errs, errsClosed, report, cpc, mpc, firstErr, ret,
              errLog, executed>>

scanVars == <<fsys, args, spc, sc, idx, pending, batcher, tasks, scanErr,
              previous>>

batchVars == <<call, run>>
unitVars == <<tuning, store, pace, conf>>
execVars == <<heap, rep, cf, unitVars>>

vars == <<poolVars, scanVars, batchVars, execVars>>

\* ------------------------------------------------------------- task model
ActionCopy == "Copy"
ActionDelete == "Delete"
ActionCopyBatch == "CopyBatch"
\* A tag the executor does not know (the default branch of RunTask).
ActionUnknown == "Unknown"

Actions == {ActionCopy, ActionDelete, ActionCopyBatch, ActionUnknown}

\* The tasks a producer may put on the channel: copies and deletes of two
\* destination paths, a batch, and a task with an unknown tag.
TaskKinds ==
    {[Action |-> ActionCopy, Dst |-> 1], [Action |-> ActionCopy, Dst |-> 2],
     [Action |-> ActionCopyBatch, Dst |-> 1],
     [Action |-> ActionDelete, Dst |-> 1], [Action |-> ActionDelete, Dst |-> 2],
     [Action |-> ActionUnknown, Dst |-> 1]}

NilErr == 0
NilReport == [Action |-> "nil"]
\* The loop variables res, err before RunTask has been called.
NoOutcome == [res |-> NilReport, err |-> NilErr]

\* A task on the channel; id is its position in the stream, Dst stands for
\* the destination path.
PoolTask(id, a, d) == [id |-> id, Action |-> a, Dst |-> d]

\* ---------------------------------------------------------------- executor
\* Executor.RunTask: (report, nil) on success, (nil, err) when the copy,
\* batch or delete fails or the action is unknown.  The error value is
\* identified by the task it came from.  A batch report's Destination is
\* "<first destination> (batch of n files)": the second component tells it
\* from the plain path.  Bytes is the number of bytes copied: the file
\* behind destination d holds d bytes.
RunTask(t, ioFails) ==
    IF t.Action = ActionUnknown \/ ioFails
    THEN [res |-> NilReport, err |-> t.id]
    ELSE [res |-> [Action |-> t.Action,
                   Destination |-> <<t.Dst, IF t.Action = ActionCopyBatch THEN 1 ELSE 0>>,
                   Bytes |-> IF t.Action = ActionDelete THEN 0 ELSE t.Dst,
                   task |-> t.id],
          err |-> NilErr]

\* ------------------------------------------------------------------ report
newReport == [StartedAt |-> 1, CompletedAt |-> 0, totalBytes |-> 0,
              copies |-> <<>>, deletes |-> <<>>]

\* A Report.add that files every report under copies.
ReportAddAllAsCopies(r, res) ==
    IF res = NilReport THEN r
    ELSE [r EXCEPT !.totalBytes = @ + res.Bytes, !.copies = Append(@, res)]

\* Report.add
ReportAdd(r, res) ==
    IF res = NilReport THEN r
    ELSE IF res.Action \in {ActionCopy, ActionCopyBatch}
    THEN [r EXCEPT !.totalBytes = @ + res.Bytes, !.copies = Append(@, res)]
    ELSE IF res.Action = ActionDelete
    THEN [r EXCEPT !.deletes = Append(@, res)]
    ELSE r

\* Destination strings compared as sort.Slice's less function compares them.
DestLess(a, b) == a[1] < b[1] \/ (a[1] = b[1] /\ a[2] < b[2])

IsSortedByDestination(s) ==
    \A i \in 1..Len(s) : \A j \in 1..Len(s) :
        i < j => ~DestLess(s[j].Destination, s[i].Destination)

Range(s) == {s[i] : i \in 1..Len(s)}

\* The orders sort.Slice may leave a list in: the same elements, ascending
\* by Destination; elements with equal Destination in any order (the sort
\* is not stable).
Rearrangements(s) ==
    {p \in [1..Len(s) -> Range(s)] :
        \A x \in Range(s) :
            Cardinality({i \in 1..Len(s) : p[i] = x})
              = Cardinality({i \in 1..Len(s) : s[i] = x})}

RECURSIVE SortedByDestination(_)
SortedByDestination(s) ==
    IF s = <<>> THEN {<<>>}
    ELSE LET least == {i \in 1..Len(s) :
                          \A j \in 1..Len(s) :
                              ~DestLess(s[j].Destination, s[i].Destination)}
         IN UNION {{<<s[i]>> \o rest :
                       rest \in SortedByDestination(
                                   SubSeq(s, 1, i - 1) \o SubSeq(s, i + 1, Len(s)))} :
                   i \in least}

\* What sort.Slice leaves of a list: the build needs Go 1.21 or newer
\* (docs/development.md), whose sort.Slice swaps two elements only after
\* less has held of a pair, so a list already in order stays as it is; any
\* other list comes out in one of its ascending orders.
sortSlice(s) ==
    IF IsSortedByDestination(s) THEN {s} ELSE SortedByDestination(s)

\* Report.markComplete / Finalize, with the value time.Now() returned.
MarkComplete(r, now, cs, ds) ==
    [r EXCEPT !.CompletedAt = IF @ = 0 THEN now ELSE @,
              !.copies = cs, !.deletes = ds]

\* The loop of Pool.Run over the closed errs channel.
FirstError(es) ==
    IF \E i \in 1..Len(es) : es[i] # NilErr
    THEN es[CHOOSE i \in 1..Len(es) :
                es[i] # NilErr /\ \A j \in 1..(i - 1) : es[j] = NilErr]
    ELSE NilErr

\* -------------------------------------------------------------------- pool
\* worker.New
New(workers) == IF workers <= 0 THEN 1 ELSE workers

WorkerIds == 1..Workers

\* A task channel that may hand a task to a worker and keep it for the next
\* receive.
WorkerRunTaskTwice(w) ==
    /\ wpc[w] = "recv"
    /\ ~tasksClosed
    /\ toSend > 0
    /\ \E k \in TaskKinds : \E ioFails \in BOOLEAN :
          LET t == PoolTask(sent + 1, k.Action, k.Dst)
              o == RunTask(t, ioFails) IN
          /\ wout' = [wout EXCEPT ![w] = o]
          /\ executed' = executed \cup {[task |-> t.id, Action |-> t.Action,
                                         ok |-> o.err = NilErr]}
          /\ wpc' = [wpc EXCEPT ![w] =
                        IF o.err # NilErr THEN "sendErr"
                        ELSE IF o.res # NilReport THEN "sendRes" ELSE "recv"]
    /\ \E again \in BOOLEAN :
          /\ sent' = IF again THEN sent ELSE sent + 1
          /\ toSend' = IF again THEN toSend ELSE toSend - 1
    /\ UNCHANGED <<Workers, tasksClosed, results, resultsClosed, errs,
                   errsClosed, report, cpc, mpc, firstErr, ret, errLog>>
    /\ UNCHANGED scanVars
    /\ UNCHANGED batchVars
    /\ UNCHANGED execVars

\* One iteration of "for t := range tasks": the producer's send meets the
\* worker's receive on the unbuffered task channel, and the worker calls
\* res, err := p.executor.RunTask(t), which by assumption finishes.
WorkerRunTask(w) ==
    /\ wpc[w] = "recv"
    /\ ~tasksClosed
    /\ toSend > 0
    /\ \E k \in TaskKinds : \E ioFails \in BOOLEAN :
          LET t == PoolTask(sent + 1, k.Action, k.Dst)
              o == RunTask(t, ioFails) IN
          /\ wout' = [wout EXCEPT ![w] = o]
          /\ executed' = executed \cup {[task |-> t.id, Action |-> t.Action,
                                         ok |-> o.err = NilErr]}
          /\ wpc' = [wpc EXCEPT ![w] =
                        IF o.err # NilErr THEN "sendErr"
                        ELSE IF o.res # NilReport THEN "sendRes" ELSE "recv"]
    /\ sent' = sent + 1
    /\ toSend' = toSend - 1
    /\ UNCHANGED <<Workers, tasksClosed, results, resultsClosed, errs,
                   errsClosed, report, cpc, mpc, firstErr, ret, errLog>>
    /\ UNCHANGED scanVars
    /\ UNCHANGED batchVars
    /\ UNCHANGED execVars

\* The producer goroutine: close(tasks) once everything has been sent.
ProducerClose ==
    /\ ~tasksClosed
    /\ toSend = 0
    /\ tasksClosed' = TRUE
    /\ UNCHANGED <<Workers, toSend, sent, wpc, wout, results,
                   resultsClosed, errs, errsClosed, report, cpc, mpc, firstErr,
                   ret, errLog, executed>>
    /\ UNCHANGED scanVars
    /\ UNCHANGED batchVars
    /\ UNCHANGED execVars

\* errs <- err; continue.  The send blocks while the buffer is full.
WorkerSendErr(w) ==
    /\ wpc[w] = "sendErr"
    /\ Len(errs) < Workers
    /\ errs' = Append(errs, wout[w].err)
    /\ errLog' = Append(errLog, wout[w].err)
    /\ wout' = [wout EXCEPT ![w] = NoOutcome]
    /\ wpc' = [wpc EXCEPT ![w] = "recv"]
    /\ UNCHANGED <<Workers, toSend, sent, tasksClosed, results,
                   resultsClosed, errsClosed, report, cpc, mpc, firstErr, ret,
                   executed>>
    /\ UNCHANGED scanVars
    /\ UNCHANGED batchVars
    /\ UNCHANGED execVars

\* results <- res
WorkerSendResult(w) ==
    /\ wpc[w] = "sendRes"
    /\ Len(results) < Workers
    /\ results' = Append(results, wout[w].res)
    /\ wout' = [wout EXCEPT ![w] = NoOutcome]
    /\ wpc' = [wpc EXCEPT ![w] = "recv"]
    /\ UNCHANGED <<Workers, toSend, sent, tasksClosed,
                   resultsClosed, errs, errsClosed, report, cpc, mpc, firstErr,
                   ret, errLog, executed>>
    /\ UNCHANGED scanVars
    /\ UNCHANGED batchVars
    /\ UNCHANGED execVars

\* The range loop ends when the task channel is closed: wg.Done().
WorkerExit(w) ==
    /\ wpc[w] = "recv"
    /\ tasksClosed
    /\ wpc' = [wpc EXCEPT ![w] = "exited"]
    /\ UNCHANGED <<Workers, toSend, sent, tasksClosed, wout, results,
                   resultsClosed, errs, errsClosed, report, cpc, mpc, firstErr,
                   ret, errLog, executed>>
    /\ UNCHANGED scanVars
    /\ UNCHANGED batchVars
    /\ UNCHANGED execVars

\* Collector goroutine: for res := range results { report.add(res) }
CollectorAdd ==
    /\ cpc = "recv"
    /\ results # <<>>
    /\ report' = ReportAdd(report, Head(results))
    /\ results' = Tail(results)
    /\ UNCHANGED <<Workers, toSend, sent, tasksClosed, wpc, wout,
                   resultsClosed, errs, errsClosed, cpc, mpc, firstErr, ret,
                   errLog, executed>>
    /\ UNCHANGED scanVars
    /\ UNCHANGED batchVars
    /\ UNCHANGED execVars

CollectorExit ==
    /\ cpc = "recv"
    /\ results = <<>>
    /\ resultsClosed
    /\ cpc' = "done"
    /\ UNCHANGED <<Workers, toSend, sent, tasksClosed, wpc, wout, results,
                   resultsClosed, errs, errsClosed, report, mpc, firstErr, ret,
                   errLog, executed>>
    /\ UNCHANGED scanVars
    /\ UNCHANGED batchVars
    /\ UNCHANGED execVars

\* close(results) without wg.Wait()
RunCloseResultsEarly ==
    /\ mpc = "wait"
    /\ resultsClosed' = TRUE
    /\ mpc' = "collectorWait"
    /\ UNCHANGED <<Workers, toSend, sent, tasksClosed, wpc, wout, results,
                   errs, errsClosed, report, cpc, firstErr, ret, errLog, executed>>
    /\ UNCHANGED scanVars
    /\ UNCHANGED batchVars
    /\ UNCHANGED execVars

\* wg.Wait(); close(results)
RunCloseResults ==
    /\ mpc = "wait"
    /\ \A w \in WorkerIds : wpc[w] = "exited"
    /\ resultsClosed' = TRUE
    /\ mpc' = "collectorWait"
    /\ UNCHANGED <<Workers, toSend, sent, tasksClosed, wpc, wout, results,
                   errs, errsClosed, report, cpc, firstErr, ret, errLog, executed>>
    /\ UNCHANGED scanVars
    /\ UNCHANGED batchVars
    /\ UNCHANGED execVars

\* collector.Wait(); close(errs); the loop that keeps the first error
RunDrainErrs ==
    /\ mpc = "collectorWait"
    /\ cpc = "done"
    /\ errsClosed' = TRUE
    /\ firstErr' = FirstError(errs)
    /\ errs' = <<>>
    /\ mpc' = "finalize"
    /\ UNCHANGED <<Workers, toSend, sent, tasksClosed, wpc, wout, results,
                   resultsClosed, report, cpc, ret, errLog, executed>>
    /\ UNCHANGED scanVars
    /\ UNCHANGED batchVars
    /\ UNCHANGED execVars

\* report.Finalize(); return report, firstErr
RunReturn ==
    /\ mpc = "finalize"
    /\ \E now \in {report.StartedAt + 1} :
       \E cs \in sortSlice(report.copies) :
       \E ds \in sortSlice(report.deletes) :
          LET r == MarkComplete(report, now, cs, ds) IN
          /\ report' = r
          /\ ret' = [returned |-> TRUE, report |-> r, err |-> firstErr]
    /\ mpc' = "returned"
    /\ UNCHANGED <<Workers, toSend, sent, tasksClosed, wpc, wout, results,
                   resultsClosed, errs, errsClosed, cpc, firstErr, errLog, executed>>
    /\ UNCHANGED scanVars
    /\ UNCHANGED batchVars
    /\ UNCHANGED execVars

WorkerStep(w) ==
    \/ WorkerRunTask(w)
    \/ WorkerSendErr(w)
    \/ WorkerSendResult(w)
    \/ WorkerExit(w)

PoolNext ==
    \/ \E w \in WorkerIds : WorkerStep(w)
    \/ ProducerClose
    \/ CollectorAdd
    \/ CollectorExit
    \/ RunCloseResults
    \/ RunDrainErrs
    \/ RunReturn

\* ===================================================================
\* Scanner
\* ===================================================================
\* Paths and keys are strings: sequences of byte values.
PathSeparator == 47
Dot == <<46>>

\* Largest file size in the trees.
MaxSize == 2
\* The modification times a file may have: an earlier and a later instant.
ModTimes == {1, 2}

\* The arguments src and dst: "/s" and "/d".
SrcArg == <<47, 115>>
DstArg == <<47, 100>>

\* The relative paths an entry of a tree may have: "a", "a/b", "a/c".
RelPaths == {<<97>>, <<97, 47, 98>>, <<97, 47, 99>>}

\* strings.HasPrefix, strings.TrimPrefix
HasPrefix(s, prefix) ==
    Len(prefix) <= Len(s) /\ SubSeq(s, 1, Len(prefix)) = prefix

\* path lies below the directory dir.
IsBelow(path, dir) == HasPrefix(path, dir \o <<PathSeparator>>)

TrimPrefix(s, prefix) ==
    IF HasPrefix(s, prefix) THEN SubSeq(s, Len(prefix) + 1, Len(s)) ELSE s

\* The < of Go strings: bytewise lexicographic.
StringLess(a, b) ==
    \E i \in 1..(Len(a) + 1) :
        /\ i <= Len(b)
        /\ \A j \in 1..(i - 1) : a[j] = b[j]
        /\ (i = Len(a) + 1 \/ a[i] < b[i])

\* The elements between separators, empty ones included.
RECURSIVE SplitPath(_)
SplitPath(p) ==
    IF p = <<>> THEN << <<>> >>
    ELSE LET rest == SplitPath(Tail(p)) IN
         IF Head(p) = PathSeparator THEN << <<>> >> \o rest
         ELSE << <<Head(p)>> \o Head(rest) >> \o Tail(rest)

RECURSIVE JoinElements(_)
JoinElements(es) ==
    IF es = <<>> THEN <<>>
    ELSE IF Len(es) = 1 THEN es[1]
    ELSE es[1] \o <<PathSeparator>> \o JoinElements(Tail(es))

IsName(e) == e # <<>> /\ e # Dot

\* filepath.Clean on paths without "..": empty and "." elements and
\* repeated or trailing separators are dropped.
Clean(p) ==
    IF p = <<>> THEN Dot
    ELSE LET body == JoinElements(SelectSeq(SplitPath(p), IsName)) IN
         IF p[1] = PathSeparator THEN <<PathSeparator>> \o body
         ELSE IF body = <<>> THEN Dot ELSE body

\* filepath.Join of two elements
Join(a, b) ==
    IF a = <<>> /\ b = <<>> THEN <<>>
    ELSE IF a = <<>> THEN Clean(b)
    ELSE IF b = <<>> THEN Clean(a)
    ELSE Clean(a \o <<PathSeparator>> \o b)

NonEmpty(e) == e # <<>>

\* filepath.Base
Base(p) ==
    IF p = <<>> THEN Dot
    ELSE LET es == SelectSeq(SplitPath(p), NonEmpty) IN
         IF es = <<>> THEN <<PathSeparator>> ELSE es[Len(es)]

\* filepath.Rel(root, path) for a path at or below root
Rel(root, path) ==
    IF path = root THEN Dot ELSE TrimPrefix(path, root \o <<PathSeparator>>)

\* A sort that puts the greatest string first.
RECURSIVE SortStringsDescending(_)
SortStringsDescending(S) ==
    IF S = {} THEN <<>>
    ELSE LET m == CHOOSE x \in S : \A y \in S \ {x} : StringLess(y, x) IN
         <<m>> \o SortStringsDescending(S \ {m})

\* sort.Strings of a set of distinct strings
RECURSIVE SortStrings(_)
SortStrings(S) ==
    IF S = {} THEN <<>>
    ELSE LET m == CHOOSE x \in S : \A y \in S \ {x} : StringLess(x, y) IN
         <<m>> \o SortStrings(S \ {m})

\* ------------------------------------------------------------ file system
Absent == [kind |-> "absent", size |-> 0, mtime |-> 0]
Directory == [kind |-> "dir", size |-> 0, mtime |-> 0]
RegularFiles == [kind : {"file"}, size : 1..MaxSize, mtime : ModTimes]
Entries == {Absent, Directory} \cup RegularFiles

\* The directory an entry lies in, <<>> for an entry of the root.
Parent(rel) ==
    LET es == SplitPath(rel) IN JoinElements(SubSeq(es, 1, Len(es) - 1))

\* A tree below a root: every entry lies in a directory of the tree.
Trees ==
    {t \in [RelPaths -> Entries] :
        \A r \in RelPaths :
            (t[r] # Absent /\ Parent(r) # <<>>) =>
                (Parent(r) \in RelPaths /\ t[Parent(r)] = Directory)}

\* fileMeta
FileMeta(path, info) == [Path |-> path, Info |-> info]

NoError == "nil"

\* What os.Stat finds at a root: a directory, nothing, or something that
\* is not a directory.
RootKinds == {"dir", "missing", "file"}

\* A snapshot that takes a root that does not exist for an error.
SnapshotErrorIfMissing(kind) ==
    IF kind = "missing" THEN "no such file or directory"
    ELSE IF kind = "file" THEN "not a directory" ELSE NoError

\* A snapshot that takes whatever is at the root for a directory.
SnapshotErrorNever(kind) == NoError

\* The error snapshot(root) returns: none for a root that does not exist,
\* "is not a directory" for one that is no directory.
SnapshotError(kind) == IF kind = "file" THEN "not a directory" ELSE NoError

\* snapshot(root): an empty result for a root that does not exist;
\* otherwise filepath.WalkDir hands the callback root joined with the
\* entry's relative path, and the maps are keyed by filepath.Rel(root, path).
Snapshot(root, kind, tree) ==
    LET walked(kinds) == {r \in RelPaths : tree[r].kind \in kinds}
        index(kinds) ==
            [rel \in {Rel(root, Join(root, r)) : r \in walked(kinds)} |->
                LET r == CHOOSE r \in walked(kinds) : Rel(root, Join(root, r)) = rel
                IN FileMeta(Join(root, r), tree[r])]
    IN IF kind = "dir"
       THEN [Files |-> index({"file"}), Dirs |-> index({"dir"})]
       ELSE [Files |-> index({}), Dirs |-> index({})]

\* A withPrefix that leaves out the prefix.
withPrefixNever(prefix, rel, include) == rel

\* withPrefix
withPrefix(prefix, rel, include) ==
    IF ~include \/ prefix = <<>> THEN rel
    ELSE IF rel = <<>> THEN prefix
    ELSE Join(prefix, rel)

\* A srcPathForKey that joins the key to the source root as it is, prefix
\* included.
srcPathForKeyUntrimmed(key, cleanSrc, base, includeDir) ==
    [path |-> Join(cleanSrc, key), ok |-> TRUE]

\* srcPathForKey: the path and the ok flag
srcPathForKey(key, cleanSrc, base, includeDir) ==
    IF ~includeDir \/ base = <<>> THEN [path |-> Join(cleanSrc, key), ok |-> TRUE]
    ELSE IF key = base THEN [path |-> cleanSrc, ok |-> TRUE]
    ELSE IF ~HasPrefix(key, base \o <<PathSeparator>>) THEN [path |-> <<>>, ok |-> FALSE]
    ELSE [path |-> Join(cleanSrc, TrimPrefix(key, base \o <<PathSeparator>>)), ok |-> TRUE]

\* A shouldCopy that compares the mtimes with "not before" in place of
\* "after".
shouldCopyNotBefore(srcInfo, dstInfo) ==
    IF srcInfo.size # dstInfo.size THEN TRUE
    ELSE srcInfo.mtime >= dstInfo.mtime

\* shouldCopy for a destination entry that exists (dstInfo is never nil at
\* the call in Scan)
shouldCopy(srcInfo, dstInfo) ==
    IF srcInfo.size # dstInfo.size THEN TRUE
    ELSE srcInfo.mtime > dstInfo.mtime

\* ------------------------------------------------------------------ tasks
NilBatch == [Entries |-> <<>>, Archive |-> <<>>]

CopyTask(src, dst) ==
    [Action |-> ActionCopy, Src |-> src, Dst |-> dst, Batch |-> NilBatch]

DeleteTask(dst) ==
    [Action |-> ActionDelete, Src |-> <<>>, Dst |-> dst, Batch |-> NilBatch]

\* task.CopyBatchEntry
CopyBatchEntry(src, dst, size) ==
    [Source |-> src, Destination |-> dst, Size |-> size]

\* The task Flush sends: Src and Dst are those of the first entry.
CopyBatchTask(entries, archive) ==
    [Action |-> ActionCopyBatch,
     Src |-> IF Len(entries) > 0 THEN entries[1].Source ELSE <<>>,
     Dst |-> IF Len(entries) > 0 THEN entries[1].Destination ELSE <<>>,
     Batch |-> [Entries |-> entries, Archive |-> archive]]

\* ------------------------------------------------------------ copyBatcher
ModeUpdate == "update"
ModeMirror == "mirror"
ModeSync == "sync"
Modes == {ModeUpdate, ModeMirror, ModeSync}

\* What can go wrong while Add reads one file into the archive: os.Open
\* fails; tar.FileInfoHeader or WriteHeader fails; io.Copy fails; or the
\* file yields fewer bytes than its FileInfo said, which io.Copy does not
\* report and the tar writer reports at the next header or at Close.
Faults == {"none", "open", "header", "copy", "short"}

\* Options: BatchThreshold, BatchMaxFiles, BatchMaxBytes
Options(threshold, maxFiles, maxBytes) ==
    [BatchThreshold |-> threshold, BatchMaxFiles |-> maxFiles,
     BatchMaxBytes |-> maxBytes]

\* The options Scan is run with: batching disabled; a threshold below the
\* largest file and no limit; a threshold that admits every file, with a
\* limit of two files and of three bytes.
OptionChoices ==
    {Options(0, 0, 0), Options(1, 0, 0), Options(MaxSize, 2, 3)}

\* strconv's decimal digits of a natural number, as fmt's %d prints it.
RECURSIVE Decimal(_)
Decimal(n) ==
    IF n < 10 THEN <<48 + n>> ELSE Decimal(n \div 10) \o <<48 + (n % 10)>>

\* A member name that counts from one.
MemberNameFromOne(n) == <<102, 105, 108, 101, 45>> \o Decimal(n + 1)

\* fmt.Sprintf("file-%d", n)
MemberName(n) == <<102, 105, 108, 101, 45>> \o Decimal(n)

\* The first n bytes a read of the file at path yields.  Every file has
\* bytes of its own, told apart by the root and the last byte of its path.
FileBytes(path, n) ==
    [i \in 1..n |-> (path[2] + path[Len(path)] + i) % 256]

\* The batcher's state.  buf is the archive written so far, one member per
\* header: its name, the size in the header and the payload bytes written.
\* tw is whether the tar writer exists; missed whether its current member
\* is short of bytes.
newCopyBatcher ==
    [entries |-> <<>>, totalBytes |-> 0, buf |-> <<>>, tw |-> FALSE,
     missed |-> FALSE]

\* A reset without buf.Reset().
resetKeepingBuf(b) == [newCopyBatcher EXCEPT !.buf = b.buf]

\* copyBatcher.reset
reset(b) == newCopyBatcher

enabled(opts) == opts.BatchThreshold > 0

canAdd(b, opts, size) ==
    IF ~enabled(opts) THEN FALSE
    ELSE IF opts.BatchMaxFiles > 0 /\ Len(b.entries) >= opts.BatchMaxFiles THEN FALSE
    ELSE IF opts.BatchMaxBytes > 0 /\ b.totalBytes + size > opts.BatchMaxBytes THEN FALSE
    ELSE TRUE

reachedLimits(b, opts) ==
    IF ~enabled(opts) THEN FALSE
    ELSE IF opts.BatchMaxFiles > 0 /\ Len(b.entries) >= opts.BatchMaxFiles THEN TRUE
    ELSE IF opts.BatchMaxBytes > 0 /\ b.totalBytes >= opts.BatchMaxBytes THEN TRUE
    ELSE FALSE

\* What a call of the batcher leaves: its state, the tasks it sent, its error.
Outcome(b, out, err) == [b |-> b, out |-> out, err |-> err]

\* A Flush that sends a task even when no entry is pending.
FlushEvenEmpty(b, opts) ==
    IF ~enabled(opts) THEN Outcome(b, <<>>, NoError)
    ELSE IF b.tw /\ b.missed THEN Outcome(b, <<>>, "close")
    ELSE Outcome(reset(b), <<CopyBatchTask(b.entries, b.buf)>>, NoError)

\* copyBatcher.Flush
Flush(b, opts) ==
    IF ~enabled(opts) THEN Outcome(b, <<>>, NoError)
    ELSE IF Len(b.entries) = 0 THEN Outcome(reset(b), <<>>, NoError)
    ELSE IF b.tw /\ b.missed THEN Outcome(b, <<>>, "close")
    ELSE Outcome(reset(b), <<CopyBatchTask(b.entries, b.buf)>>, NoError)

\* An Add that, when the batch has reached a limit, resets the batcher
\* without sending the batch.
AddMemberDroppingFullBatch(b0, opts, src, dst, info, fault, out) ==
    LET b == [b0 EXCEPT !.tw = TRUE] IN
    IF fault = "open" THEN Outcome(b, out, "open")
    ELSE IF fault = "header" \/ b.missed THEN Outcome(reset(b), out, "header")
    ELSE IF fault = "copy" THEN Outcome(reset(b), out, "copy")
    ELSE LET written == IF fault = "short" THEN info.size - 1 ELSE info.size
             b2 == [b EXCEPT
                      !.buf = Append(@, [Name |-> MemberName(Len(b.entries)),
                                         Size |-> info.size,
                                         Payload |-> FileBytes(src, written)]),
                      !.missed = (written < info.size),
                      !.entries = Append(@, CopyBatchEntry(src, dst, info.size)),
                      !.totalBytes = @ + info.size]
         IN IF reachedLimits(b2, opts)
            THEN Outcome(reset(b2), out, NoError)
            ELSE Outcome(b2, out, NoError)

\* The part of Add after the flushes: open the file, write the header and
\* the bytes, record the entry, flush when a limit is reached.
AddMember(b0, opts, src, dst, info, fault, out) ==
    LET b == [b0 EXCEPT !.tw = TRUE] IN
    IF fault = "open" THEN Outcome(b, out, "open")
    ELSE IF fault = "header" \/ b.missed THEN Outcome(reset(b), out, "header")
    ELSE IF fault = "copy" THEN Outcome(reset(b), out, "copy")
    ELSE LET written == IF fault = "short" THEN info.size - 1 ELSE info.size
             b2 == [b EXCEPT
                      !.buf = Append(@, [Name |-> MemberName(Len(b.entries)),
                                         Size |-> info.size,
                                         Payload |-> FileBytes(src, written)]),
                      !.missed = (written < info.size),
                      !.entries = Append(@, CopyBatchEntry(src, dst, info.size)),
                      !.totalBytes = @ + info.size]
         IN IF reachedLimits(b2, opts)
            THEN LET f == Flush(b2, opts) IN Outcome(f.b, out \o f.out, f.err)
            ELSE Outcome(b2, out, NoError)

\* An Add without its first test, "if !b.enabled()".
AddWithoutEnabledTest(b, opts, src, dst, info, fault) ==
    IF info.size > opts.BatchThreshold
    THEN LET f == Flush(b, opts) IN
         IF f.err # NoError THEN f
         ELSE Outcome(f.b, f.out \o <<CopyTask(src, dst)>>, NoError)
    ELSE IF ~canAdd(b, opts, info.size)
    THEN LET f == Flush(b, opts) IN
         IF f.err # NoError THEN f
         ELSE AddMember(f.b, opts, src, dst, info, fault, f.out)
    ELSE AddMember(b, opts, src, dst, info, fault, <<>>)

\* An Add that sends the Copy of a file over the threshold before it
\* flushes the pending batch.
AddCopyBeforeFlush(b, opts, src, dst, info, fault) ==
    IF ~enabled(opts) THEN Outcome(b, <<CopyTask(src, dst)>>, NoError)
    ELSE IF info.size > opts.BatchThreshold
    THEN LET f == Flush(b, opts) IN
         Outcome(f.b, <<CopyTask(src, dst)>> \o f.out, f.err)
    ELSE IF ~canAdd(b, opts, info.size)
    THEN LET f == Flush(b, opts) IN
         IF f.err # NoError THEN f
         ELSE AddMember(f.b, opts, src, dst, info, fault, f.out)
    ELSE AddMember(b, opts, src, dst, info, fault, <<>>)

\* copyBatcher.Add
Add(b, opts, src, dst, info, fault) ==
    IF ~enabled(opts) THEN Outcome(b, <<CopyTask(src, dst)>>, NoError)
    ELSE IF info.size > opts.BatchThreshold
    THEN LET f == Flush(b, opts) IN
         IF f.err # NoError THEN f
         ELSE Outcome(f.b, f.out \o <<CopyTask(src, dst)>>, NoError)
    ELSE IF ~canAdd(b, opts, info.size)
    THEN LET f == Flush(b, opts) IN
         IF f.err # NoError THEN f
         ELSE AddMember(f.b, opts, src, dst, info, fault, f.out)
    ELSE AddMember(b, opts, src, dst, info, fault, <<>>)

\* -------------------------------------------------------------------- Scan
\* A snapshot's map re-keyed with withPrefix, as Scan's four loops build
\* srcFiles, srcDirs, dstFiles and dstDirs.
Keyed(index, base, includeDir) ==
    [key \in {withPrefix(base, rel, includeDir) : rel \in DOMAIN index} |->
        index[CHOOSE rel \in DOMAIN index : withPrefix(base, rel, includeDir) = key]]

\* Scan up to newCopyBatcher: the cleaned roots, the prefix, the two
\* snapshots and the sorted key lists.
ScanLocals(src, dst, includeDirArg) ==
    LET cleanSrc == Clean(src)
        cleanDst == Clean(dst)
        srcBase == Base(cleanSrc)
        includeDir == includeDirArg /\ srcBase # <<PathSeparator>> /\ srcBase # Dot
        base == IF includeDirArg THEN srcBase ELSE <<>>
        dstRoot == IF includeDir THEN Join(cleanDst, base) ELSE cleanDst
        srcSnap == Snapshot(cleanSrc, fsys.srcRoot, fsys.src)
        dstSnap == Snapshot(dstRoot, fsys.dstRoot, fsys.dst)
        srcFiles == Keyed(srcSnap.Files, base, includeDir)
        dstFiles == Keyed(dstSnap.Files, base, includeDir)
    IN [cleanSrc |-> cleanSrc, cleanDst |-> cleanDst, base |-> base,
        includeDir |-> includeDir, dstRoot |-> dstRoot,
        srcFiles |-> srcFiles,
        srcDirs |-> Keyed(srcSnap.Dirs, base, includeDir),
        srcFileKeys |-> SortStrings(DOMAIN srcFiles),
        dstFiles |-> dstFiles,
        dstDirs |-> Keyed(dstSnap.Dirs, base, includeDir),
        dstFileKeys |-> SortStrings(DOMAIN dstFiles)]

NoLocals == [cleanSrc |-> <<>>]
NoRun == [ran |-> FALSE, mode |-> ModeUpdate, tasks |-> <<>>, err |-> NoError]

\* ------------------------------------------------- the Report on the heap
\* A slice value: the backing array it points into (0 for a nil slice), its
\* length and its capacity.  heap[a] is array a, a sequence of cap slots.
NilSlice == [arr |-> 0, len |-> 0, cap |-> 0]

\* The elements a slice shows.
Elems(h, s) == IF s.len = 0 THEN <<>> ELSE SubSeq(h[s.arr], 1, s.len)

\* The zero value of a slot no slice element has been stored in.
ZeroSlot == [Action |-> "zero"]

\* append(s, x): stored in place while the capacity lasts, otherwise in a
\* new array of capacity newcap that gets the old elements.
append(h, s, x, newcap) ==
    IF s.len < s.cap
    THEN [heap |-> [h EXCEPT ![s.arr][s.len + 1] = x],
          slice |-> [s EXCEPT !.len = @ + 1]]
    ELSE [heap |-> Append(h, [k \in 1..newcap |->
                                 IF k <= s.len THEN h[s.arr][k]
                                 ELSE IF k = s.len + 1 THEN x ELSE ZeroSlot]),
          slice |-> [arr |-> Len(h) + 1, len |-> s.len + 1, cap |-> newcap]]

\* The capacities the runtime may give the array append grows into: at
\* least twice the old one, rounded up to an allocation size.
GrownCaps(s) ==
    LET m == IF 2 * s.cap > s.len + 1 THEN 2 * s.cap ELSE s.len + 1
    IN {m, m + 1}

\* cloneTaskReport: the struct is copied; BatchEntries, when it has
\* elements, gets an array of its own.
cloneTaskReport(h, src) ==
    IF src.BatchEntries.len > 0
    THEN [heap |-> Append(h, Elems(h, src.BatchEntries)),
          tr |-> [src EXCEPT !.BatchEntries =
                     [arr |-> Len(h) + 1, len |-> src.BatchEntries.len,
                      cap |-> src.BatchEntries.len]]]
    ELSE [heap |-> h, tr |-> src]

\* NewReport / newReport at time now.
NewReport(now) ==
    [newReport EXCEPT !.StartedAt = now, !.copies = NilSlice,
                      !.deletes = NilSlice]

\* A Report.add that counts the bytes of every report it is given.
addCountingAll(h, r, res, newcap) ==
    IF res = NilReport THEN [heap |-> h, report |-> r]
    ELSE LET c == cloneTaskReport(h, res) IN
         IF res.Action \in {ActionCopy, ActionCopyBatch}
         THEN LET a == append(c.heap, r.copies, c.tr, newcap) IN
              [heap |-> a.heap,
               report |-> [r EXCEPT !.totalBytes = @ + res.Bytes,
                                    !.copies = a.slice]]
         ELSE IF res.Action = ActionDelete
         THEN LET a == append(c.heap, r.deletes, c.tr, newcap) IN
              [heap |-> a.heap,
               report |-> [r EXCEPT !.totalBytes = @ + res.Bytes,
                                    !.deletes = a.slice]]
         ELSE [heap |-> h, report |-> [r EXCEPT !.totalBytes = @ + res.Bytes]]

\* Report.add (and Record, which calls it) on a Report whose lists are
\* slices on the heap.
add(h, r, res, newcap) ==
    IF res = NilReport THEN [heap |-> h, report |-> r]
    ELSE IF res.Action \in {ActionCopy, ActionCopyBatch}
    THEN LET c == cloneTaskReport(h, res)
             a == append(c.heap, r.copies, c.tr, newcap) IN
         [heap |-> a.heap,
          report |-> [r EXCEPT !.totalBytes = @ + res.Bytes,
                               !.copies = a.slice]]
    ELSE IF res.Action = ActionDelete
    THEN LET c == cloneTaskReport(h, res)
             a == append(c.heap, r.deletes, c.tr, newcap) IN
         [heap |-> a.heap, report |-> [r EXCEPT !.deletes = a.slice]]
    ELSE [heap |-> h, report |-> r]

\* sort.Slice on a slice: the elements are rearranged inside its array.
SortInPlace(h, s, sorted) ==
    IF s.len = 0 THEN h
    ELSE [h EXCEPT ![s.arr] = [k \in 1..s.cap |->
                                  IF k <= s.len THEN sorted[k] ELSE @[k]]]

\* Finalize stamping the completion time at every call.
FinalizeStampingAgain(h, r, now, cs, ds) ==
    [heap |-> SortInPlace(SortInPlace(h, r.copies, cs), r.deletes, ds),
     report |-> [r EXCEPT !.CompletedAt = now]]

\* Report.markComplete / Finalize: cs and ds are the orders sort.Slice
\* leaves the two lists in.
Finalize(h, r, now, cs, ds) ==
    [heap |-> SortInPlace(SortInPlace(h, r.copies, cs), r.deletes, ds),
     report |-> [r EXCEPT !.CompletedAt = IF @ = 0 THEN now ELSE @]]

\* The loops "for i, tr := range list { out[i] = cloneTaskReport(tr) }" of
\* Snapshot and ReportFromSnapshot, from the reports left to clone.
RECURSIVE cloneEach(_, _, _)
cloneEach(h, trs, done) ==
    IF trs = <<>> THEN [heap |-> h, trs |-> done]
    ELSE LET c == cloneTaskReport(h, Head(trs))
         IN cloneEach(c.heap, Tail(trs), Append(done, c.tr))

\* A copy of a list that is the list itself.
cloneListShared(h, s) == [heap |-> h, slice |-> s]

\* "if len(list) > 0 { out = make([]TaskReport, len(list)); ... }": a nil
\* slice for an empty list, otherwise a new array of the clones.
cloneList(h, s) ==
    IF s.len = 0 THEN [heap |-> h, slice |-> NilSlice]
    ELSE LET c == cloneEach(h, Elems(h, s), <<>>) IN
         [heap |-> Append(c.heap, c.trs),
          slice |-> [arr |-> Len(c.heap) + 1, len |-> s.len, cap |-> s.len]]

\* Report.Snapshot
ReportSnapshot(h, r) ==
    LET cs == cloneList(h, r.copies)
        ds == cloneList(cs.heap, r.deletes) IN
    [heap |-> ds.heap,
     snap |-> [StartedAt |-> r.StartedAt, CompletedAt |-> r.CompletedAt,
               TotalBytes |-> r.totalBytes, Copies |-> cs.slice,
               Deletes |-> ds.slice]]

\* ReportFromSnapshot, newReport being called at time now.
ReportFromSnapshot(h, snap, now) ==
    LET cs == cloneList(h, snap.Copies)
        ds == cloneList(cs.heap, snap.Deletes) IN
    [heap |-> ds.heap,
     report |-> [NewReport(now) EXCEPT !.StartedAt = snap.StartedAt,
                                       !.CompletedAt = snap.CompletedAt,
                                       !.totalBytes = snap.TotalBytes,
                                       !.copies = cs.slice,
                                       !.deletes = ds.slice]]

\* What a Report shows through its fields and its accessors: the lists as
\* values, each report with the entries its BatchEntries shows.
ListView(h, s) ==
    [k \in 1..s.len |->
        [h[s.arr][k] EXCEPT !.BatchEntries = Elems(h, @)]]

View(h, r) ==
    [StartedAt |-> r.StartedAt, CompletedAt |-> r.CompletedAt,
     totalBytes |-> r.totalBytes,
     copies |-> ListView(h, r.copies), deletes |-> ListView(h, r.deletes)]

NoReport == [StartedAt |-> 0]
NoOp == [op |-> "none", on |-> "none", res |-> NilReport, bytesBefore |-> 0]
\* No Report has been made yet.
NoReports ==
    [r |-> NoReport, restored |-> NoReport, saved |-> NoReport,
     fresh |-> NoReport, last |-> NoOp, n |-> 0]

\* ------------------------------------------------ copyFile, step by step
\* The calls of copyFile and tryZeroCopy that can fail.
FileOps == {"mkdir", "open", "stat", "create", "sync", "chmod", "seek",
            "hash", "copy", "close"}

\* What syscall.Sendfile does: all bytes sent; an errno of the list that
\* sends copyFile to the buffered copy; another errno; 0 bytes before the
\* end of the file.
SendfileOutcomes == {"ok", "unsupported", "error", "short"}

\* The file system under one Copy task: the calls that fail when they are
\* made, whether the source is a regular file, its size, what sendfile does.
Environments ==
    [fails : SUBSET FileOps, regular : BOOLEAN, size : {0, 1},
     sendfile : SendfileOutcomes]

\* The result of a call on the destination file that may never be made.
CallResult(env, op) == IF op \in env.fails THEN "failed" ELSE "ok"

\* What one of the two copy paths did: the error it returned, whether it
\* did the copy (used), the results of dst.Sync() and of the deferred
\* dst.Close(), "none" when the call was not made.
Path(err, used, sync, close) ==
    [err |-> err, used |-> used, sync |-> sync, close |-> close]

\* tryZeroCopy
tryZeroCopy(env) ==
    IF "open" \in env.fails THEN Path("open", FALSE, "none", "none")
    ELSE IF "stat" \in env.fails THEN Path("stat", FALSE, "none", "none")
    ELSE IF ~env.regular THEN Path(NoError, FALSE, "none", "none")
    ELSE IF "create" \in env.fails THEN Path("create", FALSE, "none", "none")
    ELSE LET close == CallResult(env, "close") IN
         IF env.size > 0 /\ env.sendfile = "unsupported"
         THEN Path(NoError, FALSE, "none", close)
         ELSE IF env.size > 0 /\ env.sendfile = "error"
         THEN Path("sendfile", TRUE, "none", close)
         ELSE IF env.size > 0 /\ env.sendfile = "short"
         THEN Path("short write", TRUE, "none", close)
         ELSE IF "sync" \in env.fails THEN Path("sync", TRUE, "failed", close)
         ELSE IF "chmod" \in env.fails THEN Path("chmod", TRUE, "ok", close)
         ELSE IF "seek" \in env.fails THEN Path("seek", TRUE, "ok", close)
         ELSE IF "hash" \in env.fails THEN Path("hash", TRUE, "ok", close)
         ELSE Path(NoError, TRUE, "ok", close)

\* The buffered copy of copyFile: os.Open, os.Create, defer out.Close(),
\* copyWithBandwidth.
Buffered(env) ==
    IF "open" \in env.fails THEN Path("open", TRUE, "none", "none")
    ELSE IF "create" \in env.fails THEN Path("create", TRUE, "none", "none")
    ELSE IF "copy" \in env.fails
    THEN Path("copy", TRUE, "none", CallResult(env, "close"))
    ELSE Path(NoError, TRUE, "none", CallResult(env, "close"))

\* Executor.copyFile with BandwidthLimit limit: the error it returns, the
\* path that made it return ("zero-copy" also when tryZeroCopy returned an
\* error), and what Sync and Close on the destination returned.  The file
\* tryZeroCopy opened is closed too when sendfile is not supported.
copyFile(limit, env) ==
    IF "mkdir" \in env.fails
    THEN [Path("mkdir", FALSE, "none", "none") EXCEPT !.used = "none"]
    ELSE LET z == IF limit <= 0 THEN tryZeroCopy(env)
                  ELSE Path(NoError, FALSE, "none", "none")
         IN IF z.err # NoError \/ z.used
            THEN [z EXCEPT !.used = "zero-copy"]
            ELSE LET b == Buffered(env) IN
                 [b EXCEPT !.used = "buffered",
                           !.close = IF z.close = "failed" THEN "failed" ELSE @]

\* Executor.RunTask on a Copy task: (nil, err) when copyFile returns an
\* error, otherwise a TaskReport and nil.
RunTaskCopy(limit, env) ==
    LET c == copyFile(limit, env) IN
    [report |-> c.err = NoError, err |-> c.err, path |-> c.used,
     sync |-> c.sync, close |-> c.close]

\* RunTask has not been called on a Copy task.
NotCopied == [pc |-> "none"]

\* The batcher's arrays are not followed.
NoStore == [buf |-> [arr |-> 0, len |-> 0, cap |-> 0],
            entries |-> [arr |-> 0, len |-> 0, cap |-> 0], sent |-> <<>>]

\* The goroutines that copy at the same time.
Copiers == {1, 2}

\* No executor has been made and no copy is under way.
NotCopying == [pc |-> "idle", left |-> 0, written |-> 0, elapsed |-> 0,
               n |-> 0, wake |-> 0]
NotPaced == [limit |-> 0, copy |-> [c \in Copiers |-> NotCopying]]

\* No Config has been loaded.
NoConfig == [pc |-> "none"]

\* The tuner has not been called.
NotTuned == [pc |-> "none"]

\* Nothing that is called directly has been called.
UnitsParked ==
    /\ tuning = NotTuned
    /\ store = NoStore
    /\ pace = NotPaced
    /\ conf = NoConfig

\* No call of the batcher yet; no task handed to the executor yet.
NoCall == [n |-> 0, op |-> "none", src |-> <<>>, dst |-> <<>>, size |-> 0]
NotRun == [task |-> 0, files |-> [q \in {} |-> <<>>], bytes |-> 0, err |-> NoError]

\* The pool while only the scanner runs.
PoolParked ==
    /\ Workers = 1 /\ toSend = 0 /\ sent = 0 /\ tasksClosed = FALSE
    /\ wpc = [w \in 1..1 |-> "recv"] /\ wout = [w \in 1..1 |-> NoOutcome]
    /\ results = <<>> /\ resultsClosed = FALSE /\ errs = <<>>
    /\ errsClosed = FALSE /\ report = newReport /\ cpc = "recv"
    /\ mpc = "wait" /\ firstErr = NilErr
    /\ ret = [returned |-> FALSE, report |-> NilReport, err |-> NilErr]
    /\ errLog = <<>> /\ executed = {}
    /\ call = NoCall /\ run = NotRun
    /\ heap = <<>> /\ rep = NoReports /\ cf = NotCopied
    /\ UnitsParked

ScanInit ==
    /\ PoolParked
    /\ fsys \in [src : Trees, dst : Trees, srcRoot : {"dir"}, dstRoot : {"dir"}]
    /\ args \in [src : {SrcArg}, dst : {DstArg}, includeDir : BOOLEAN,
                 mode : Modes, opts : OptionChoices]
    /\ spc = "idle"
    /\ sc = NoLocals
    /\ idx = 0
    /\ pending = {}
    /\ batcher = newCopyBatcher
    /\ tasks = <<>>
    /\ scanErr = NoError
    /\ previous = NoRun

\* A Scan that closes the task channel as it returns.
ScanFrameClosing ==
    /\ tasksClosed' = (spc' = "returned")
    /\ UNCHANGED <<Workers, toSend, sent, wpc, wout, results, resultsClosed,
                   errs, errsClosed, report, cpc, mpc, firstErr, ret, errLog,
                   executed>>

\* What every step of Scan leaves alone: the pool's state, and with it the
\* task channel, which Scan only sends on (no close(out) in scanner.go).
ScanFrame == UNCHANGED poolVars

\* The state Scan is left in when it returns err.
Return(err) == spc' = "returned" /\ scanErr' = err

\* A Scan that notes the error of a batcher call and goes on with its loop.
AfterBatcherGoesOn(r) ==
    /\ batcher' = r.b
    /\ tasks' = tasks \o r.out
    /\ idx' = idx + 1
    /\ scanErr' = IF r.err # NoError THEN r.err ELSE scanErr
    /\ UNCHANGED spc

\* The effect of one batcher call on Scan: its tasks are sent; an error
\* makes Scan return it, otherwise the loop goes on.
AfterBatcher(r) ==
    /\ batcher' = r.b
    /\ tasks' = tasks \o r.out
    /\ IF r.err # NoError THEN Return(r.err) /\ idx' = idx
       ELSE idx' = idx + 1 /\ UNCHANGED <<spc, scanErr>>

\* A Scan that leaves srcFileKeys in the order the range over the map
\* srcSnap.Files gave them (no sort.Strings).
ScanBeginUnsorted ==
    /\ spc = "idle"
    /\ LET locals == ScanLocals(args.src, args.dst, args.includeDir) IN
         \E keys \in Rearrangements(locals.srcFileKeys) :
             sc' = [locals EXCEPT !.srcFileKeys = keys]
    /\ idx' = 1
    /\ spc' = "srcLoop"
    /\ scanErr' = NoError
    /\ batcher' = newCopyBatcher
    /\ tasks' = <<>>
    /\ UNCHANGED <<fsys, args, pending, previous>>
    /\ ScanFrame
    /\ UNCHANGED batchVars
    /\ UNCHANGED execVars

\* Scan is called: argument check, snapshots, key lists, new batcher.
ScanBegin ==
    /\ spc = "idle"
    /\ IF args.src = <<>> \/ args.dst = <<>>
       THEN Return("src and dst required") /\ UNCHANGED <<sc, idx>>
       ELSE IF SnapshotError(fsys.srcRoot) # NoError
       THEN Return(SnapshotError(fsys.srcRoot)) /\ UNCHANGED <<sc, idx>>
       ELSE IF SnapshotError(fsys.dstRoot) # NoError
       THEN Return(SnapshotError(fsys.dstRoot)) /\ UNCHANGED <<sc, idx>>
       ELSE /\ sc' = ScanLocals(args.src, args.dst, args.includeDir)
            /\ idx' = 1
            /\ spc' = "srcLoop"
            /\ scanErr' = NoError
    /\ batcher' = newCopyBatcher
    /\ tasks' = <<>>
    /\ UNCHANGED <<fsys, args, pending, previous>>
    /\ ScanFrame
    /\ UNCHANGED batchVars
    /\ UNCHANGED execVars

\* One iteration of "for _, key := range srcFileKeys".
ScanSourceKey(faults) ==
    /\ spc = "srcLoop"
    /\ idx <= Len(sc.srcFileKeys)
    /\ LET key == sc.srcFileKeys[idx]
           srcMeta == sc.srcFiles[key]
           dstPath == Join(sc.cleanDst, key)
           exists == key \in DOMAIN sc.dstFiles
       IN IF ~exists \/ shouldCopy(srcMeta.Info, sc.dstFiles[key].Info)
          THEN \E fault \in faults :
                 AfterBatcher(Add(batcher, args.opts, srcMeta.Path, dstPath,
                                  srcMeta.Info, fault))
          ELSE idx' = idx + 1 /\ UNCHANGED <<batcher, tasks, spc, scanErr>>
    /\ UNCHANGED <<fsys, args, sc, pending, previous>>
    /\ ScanFrame
    /\ UNCHANGED batchVars
    /\ UNCHANGED execVars

\* A Scan whose switch on mode comes before the Flush, so that Mirror goes
\* to its deletions with the last batch unsent.
ScanFlushAfterSwitch ==
    /\ spc = "srcLoop"
    /\ idx > Len(sc.srcFileKeys)
    /\ IF args.mode = ModeMirror
       THEN /\ spc' = "mirrorFiles"
            /\ pending' = DOMAIN sc.dstFiles
            /\ UNCHANGED <<idx, scanErr, batcher, tasks>>
       ELSE LET f == Flush(batcher, args.opts) IN
            /\ batcher' = f.b
            /\ tasks' = tasks \o f.out
            /\ IF f.err # NoError THEN Return(f.err) /\ UNCHANGED <<idx, pending>>
               ELSE IF args.mode = ModeSync
               THEN /\ spc' = "syncDstOnly"
                    /\ idx' = 1
                    /\ UNCHANGED <<pending, scanErr>>
               ELSE Return(NoError) /\ UNCHANGED <<idx, pending>>
    /\ UNCHANGED <<fsys, args, sc, previous>>
    /\ ScanFrame
    /\ UNCHANGED batchVars
    /\ UNCHANGED execVars

\* batcher.Flush after the loop, then the switch on mode.
ScanFlush ==
    /\ spc = "srcLoop"
    /\ idx > Len(sc.srcFileKeys)
    /\ LET f == Flush(batcher, args.opts) IN
       /\ batcher' = f.b
       /\ tasks' = tasks \o f.out
       /\ IF f.err # NoError THEN Return(f.err) /\ UNCHANGED <<idx, pending>>
          ELSE IF args.mode = ModeMirror
          THEN /\ spc' = "mirrorFiles"
               /\ pending' = DOMAIN sc.dstFiles
               /\ UNCHANGED <<idx, scanErr>>
          ELSE IF args.mode = ModeSync
          THEN /\ spc' = "syncDstOnly"
               /\ idx' = 1
               /\ UNCHANGED <<pending, scanErr>>
          ELSE Return(NoError) /\ UNCHANGED <<idx, pending>>
    /\ UNCHANGED <<fsys, args, sc, previous>>
    /\ ScanFrame
    /\ UNCHANGED batchVars
    /\ UNCHANGED execVars

\* A first loop of enqueueMirrorDeletes without the "continue" for the keys
\* the source has.
MirrorFileKeyNoSkip ==
    /\ spc = "mirrorFiles"
    /\ \E key \in pending :
          /\ pending' = pending \ {key}
          /\ tasks' = Append(tasks, DeleteTask(sc.dstFiles[key].Path))
    /\ UNCHANGED <<fsys, args, spc, sc, idx, batcher, scanErr, previous>>
    /\ ScanFrame
    /\ UNCHANGED batchVars
    /\ UNCHANGED execVars

\* enqueueMirrorDeletes, first loop: "for key, dstMeta := range dstFiles".
\* The range over a map yields the keys in an order the runtime chooses.
MirrorFileKey ==
    /\ spc = "mirrorFiles"
    /\ \E key \in pending :
          /\ pending' = pending \ {key}
          /\ tasks' = IF key \in DOMAIN sc.srcFiles THEN tasks
                      ELSE Append(tasks, DeleteTask(sc.dstFiles[key].Path))
    /\ UNCHANGED <<fsys, args, spc, sc, idx, batcher, scanErr, previous>>
    /\ ScanFrame
    /\ UNCHANGED batchVars
    /\ UNCHANGED execVars

\* A sort.Slice with "len(i) < len(j)": shorter keys first.
ShortestFirst(S) ==
    {o \in [1..Cardinality(S) -> S] :
        /\ \A x \in S : \E i \in 1..Cardinality(S) : o[i] = x
        /\ \A i \in 1..Cardinality(S) : \A j \in 1..Cardinality(S) :
              i < j => Len(o[i]) <= Len(o[j])}

\* The orders sort.Slice with "len(i) > len(j)" may leave missingDirs in:
\* longer keys first, keys of equal length in any order (they were
\* collected by ranging over a map, and the sort is not stable).
LongestFirst(S) ==
    {o \in [1..Cardinality(S) -> S] :
        /\ \A x \in S : \E i \in 1..Cardinality(S) : o[i] = x
        /\ \A i \in 1..Cardinality(S) : \A j \in 1..Cardinality(S) :
              i < j => Len(o[i]) >= Len(o[j])}

\* enqueueMirrorDeletes, the directories: collect, sort, send; Scan returns.
MirrorDirectories ==
    /\ spc = "mirrorFiles"
    /\ pending = {}
    /\ \E missingDirs \in LongestFirst(DOMAIN sc.dstDirs \ DOMAIN sc.srcDirs) :
          tasks' = tasks \o [i \in 1..Len(missingDirs) |->
                                DeleteTask(Join(sc.cleanDst, missingDirs[i]))]
    /\ Return(NoError)
    /\ UNCHANGED <<fsys, args, sc, idx, pending, batcher, previous>>
    /\ ScanFrame
    /\ UNCHANGED batchVars
    /\ UNCHANGED execVars

\* A first loop of enqueueSyncTasks without the "continue" for the keys the
\* source has.
SyncDstOnlyKeyNoSkip(faults) ==
    /\ spc = "syncDstOnly"
    /\ idx <= Len(sc.dstFileKeys)
    /\ LET key == sc.dstFileKeys[idx]
           dstMeta == sc.dstFiles[key]
           p == srcPathForKey(key, sc.cleanSrc, sc.base, sc.includeDir)
       IN IF ~p.ok
          THEN idx' = idx + 1 /\ UNCHANGED <<batcher, tasks, spc, scanErr>>
          ELSE \E fault \in faults :
                 AfterBatcher(Add(batcher, args.opts, dstMeta.Path, p.path,
                                  dstMeta.Info, fault))
    /\ UNCHANGED <<fsys, args, sc, pending, previous>>
    /\ ScanFrame
    /\ UNCHANGED batchVars
    /\ UNCHANGED execVars

\* enqueueSyncTasks, one iteration of "for _, key := range dstKeys".
SyncDstOnlyKey(faults) ==
    /\ spc = "syncDstOnly"
    /\ idx <= Len(sc.dstFileKeys)
    /\ LET key == sc.dstFileKeys[idx]
           dstMeta == sc.dstFiles[key]
           p == srcPathForKey(key, sc.cleanSrc, sc.base, sc.includeDir)
       IN IF key \in DOMAIN sc.srcFiles \/ ~p.ok
          THEN idx' = idx + 1 /\ UNCHANGED <<batcher, tasks, spc, scanErr>>
          ELSE \E fault \in faults :
                 AfterBatcher(Add(batcher, args.opts, dstMeta.Path, p.path,
                                  dstMeta.Info, fault))
    /\ UNCHANGED <<fsys, args, sc, pending, previous>>
    /\ ScanFrame
    /\ UNCHANGED batchVars
    /\ UNCHANGED execVars

\* The first loop of enqueueSyncTasks is over; the second begins.
SyncDstOnlyDone ==
    /\ spc = "syncDstOnly"
    /\ idx > Len(sc.dstFileKeys)
    /\ spc' = "syncShared"
    /\ idx' = 1
    /\ UNCHANGED <<fsys, args, sc, pending, batcher, tasks, scanErr, previous>>
    /\ ScanFrame
    /\ UNCHANGED batchVars
    /\ UNCHANGED execVars

\* A second loop of enqueueSyncTasks that copies back every shared key the
\* destination holds no older than the source ("!Before" for "After").
SyncSharedKeyNotOlder(faults) ==
    /\ spc = "syncShared"
    /\ idx <= Len(sc.srcFileKeys)
    /\ LET key == sc.srcFileKeys[idx]
           srcMeta == sc.srcFiles[key]
           p == srcPathForKey(key, sc.cleanSrc, sc.base, sc.includeDir)
       IN IF key \in DOMAIN sc.dstFiles
             /\ sc.dstFiles[key].Info.mtime >= srcMeta.Info.mtime
             /\ p.ok
          THEN \E fault \in faults :
                 AfterBatcher(Add(batcher, args.opts, sc.dstFiles[key].Path,
                                  p.path, sc.dstFiles[key].Info, fault))
          ELSE idx' = idx + 1 /\ UNCHANGED <<batcher, tasks, spc, scanErr>>
    /\ UNCHANGED <<fsys, args, sc, pending, previous>>
    /\ ScanFrame
    /\ UNCHANGED batchVars
    /\ UNCHANGED execVars

\* The entry now at an absolute path of one of the two trees.
EntryAt(path) ==
    IF IsBelow(path, sc.cleanSrc) THEN fsys.src[Rel(sc.cleanSrc, path)]
    ELSE fsys.dst[Rel(sc.dstRoot, path)]

\* What Add meets when it opens and reads the file at path to fill a tar
\* member whose header was made from the snapshot's info: os.Open fails
\* on a missing file, the read fails on a directory, the tar writer
\* refuses bytes beyond info.Size, and fewer bytes are missed at the next
\* header or at Close.
ReadFault(path, info) ==
    LET e == EntryAt(path) IN
    IF e.kind = "absent" THEN "open"
    ELSE IF e.kind = "dir" THEN "copy"
    ELSE IF e.size > info.size THEN "copy"
    ELSE IF e.size < info.size THEN "short"
    ELSE "none"

\* The outcome of the read Scan's current iteration makes, if it makes
\* one: of the source file in Scan's own loop, of the destination file in
\* the two loops of enqueueSyncTasks.
ReadNow ==
    IF spc = "srcLoop"
    THEN LET m == sc.srcFiles[sc.srcFileKeys[idx]] IN {ReadFault(m.Path, m.Info)}
    ELSE IF spc = "syncDstOnly"
    THEN LET m == sc.dstFiles[sc.dstFileKeys[idx]] IN {ReadFault(m.Path, m.Info)}
    ELSE LET m == sc.dstFiles[sc.srcFileKeys[idx]] IN {ReadFault(m.Path, m.Info)}

\* A second loop of enqueueSyncTasks that asks the file system again for
\* the modification time of the destination file instead of using the
\* snapshot.
SyncSharedKeyStatAgain(faults) ==
    /\ spc = "syncShared"
    /\ idx <= Len(sc.srcFileKeys)
    /\ LET key == sc.srcFileKeys[idx]
           srcMeta == sc.srcFiles[key]
           p == srcPathForKey(key, sc.cleanSrc, sc.base, sc.includeDir)
       IN IF key \in DOMAIN sc.dstFiles
             /\ EntryAt(sc.dstFiles[key].Path).mtime > srcMeta.Info.mtime
             /\ p.ok
          THEN \E fault \in faults :
                 AfterBatcher(Add(batcher, args.opts, sc.dstFiles[key].Path,
                                  p.path, sc.dstFiles[key].Info, fault))
          ELSE idx' = idx + 1 /\ UNCHANGED <<batcher, tasks, spc, scanErr>>
    /\ UNCHANGED <<fsys, args, sc, pending, previous>>
    /\ ScanFrame
    /\ UNCHANGED batchVars
    /\ UNCHANGED execVars

\* enqueueSyncTasks, one iteration of "for _, key := range srcKeys".
SyncSharedKey(faults) ==
    /\ spc = "syncShared"
    /\ idx <= Len(sc.srcFileKeys)
    /\ LET key == sc.srcFileKeys[idx]
           srcMeta == sc.srcFiles[key]
           p == srcPathForKey(key, sc.cleanSrc, sc.base, sc.includeDir)
       IN IF key \in DOMAIN sc.dstFiles
             /\ sc.dstFiles[key].Info.mtime > srcMeta.Info.mtime
             /\ p.ok
          THEN \E fault \in faults :
                 AfterBatcher(Add(batcher, args.opts, sc.dstFiles[key].Path,
                                  p.path, sc.dstFiles[key].Info, fault))
          ELSE idx' = idx + 1 /\ UNCHANGED <<batcher, tasks, spc, scanErr>>
    /\ UNCHANGED <<fsys, args, sc, pending, previous>>
    /\ ScanFrame
    /\ UNCHANGED batchVars
    /\ UNCHANGED execVars

\* "return batcher.Flush(tasks)" at the end of enqueueSyncTasks.
SyncFlush ==
    /\ spc = "syncShared"
    /\ idx > Len(sc.srcFileKeys)
    /\ LET f == Flush(batcher, args.opts) IN
       /\ batcher' = f.b
       /\ tasks' = tasks \o f.out
       /\ Return(f.err)
    /\ UNCHANGED <<fsys, args, sc, idx, pending, previous>>
    /\ ScanFrame
    /\ UNCHANGED batchVars
    /\ UNCHANGED execVars

\* The caller keeps the stream it read and, when Scan returned nil, calls
\* Scan once more on the same trees with the same src, dst, includeDir and
\* options (an error ends the caller).
SecondModes(m) == IF m = ModeUpdate THEN {ModeUpdate, ModeMirror} ELSE {m}

ScanAgain ==
    /\ spc = "returned"
    /\ scanErr = NoError
    /\ ~previous.ran
    /\ previous' = [ran |-> TRUE, mode |-> args.mode, tasks |-> tasks,
                    err |-> scanErr]
    /\ \E m \in SecondModes(args.mode) : args' = [args EXCEPT !.mode = m]
    /\ spc' = "idle"
    /\ sc' = NoLocals
    /\ idx' = 0
    /\ batcher' = newCopyBatcher
    /\ tasks' = <<>>
    /\ scanErr' = NoError
    /\ UNCHANGED <<fsys, pending>>
    /\ ScanFrame
    /\ UNCHANGED batchVars
    /\ UNCHANGED execVars

\* One invocation of Scan, on a file system whose reads may fail.
ScanNext ==
    \/ ScanBegin
    \/ ScanSourceKey(Faults)
    \/ ScanFlush
    \/ MirrorFileKey
    \/ MirrorDirectories
    \/ SyncDstOnlyKey(Faults)
    \/ SyncDstOnlyDone
    \/ SyncSharedKey(Faults)
    \/ SyncFlush

\* Two invocations of Scan on the same inputs, one after the other, on a
\* file system whose reads succeed (a failed read makes Scan return an
\* error, and the caller stops at an error).
RescanNext ==
    \/ ScanBegin
    \/ ScanSourceKey({"none"})
    \/ ScanFlush
    \/ MirrorFileKey
    \/ MirrorDirectories
    \/ SyncDstOnlyKey({"none"})
    \/ SyncDstOnlyDone
    \/ SyncSharedKey({"none"})
    \/ SyncFlush
    \/ ScanAgain

\* After a Scan with batching enabled returned nil the caller calls Scan
\* on the same trees, in the same mode, with batching disabled.
ScanUnbatched ==
    /\ spc = "returned"
    /\ scanErr = NoError
    /\ ~previous.ran
    /\ enabled(args.opts)
    /\ previous' = [ran |-> TRUE, mode |-> args.mode, tasks |-> tasks,
                    err |-> scanErr]
    /\ args' = [args EXCEPT !.opts = Options(0, 0, 0)]
    /\ spc' = "idle"
    /\ sc' = NoLocals
    /\ idx' = 0
    /\ batcher' = newCopyBatcher
    /\ tasks' = <<>>
    /\ scanErr' = NoError
    /\ UNCHANGED <<fsys, pending>>
    /\ ScanFrame
    /\ UNCHANGED batchVars
    /\ UNCHANGED execVars

UnbatchInit == ScanInit /\ enabled(args.opts)

UnbatchNext ==
    \/ ScanBegin
    \/ ScanSourceKey(Faults)
    \/ ScanFlush
    \/ MirrorFileKey
    \/ MirrorDirectories
    \/ SyncDstOnlyKey(Faults)
    \/ SyncDstOnlyDone
    \/ SyncSharedKey(Faults)
    \/ SyncFlush
    \/ ScanUnbatched

\* Scan with batching enabled, on a file system whose reads may fail, and
\* after a nil return Scan on the same inputs with batching disabled.
UnbatchSpec == UnbatchInit /\ [][UnbatchNext]_vars

\* ------------------------------------------ workers beside a running Scan
\* The modification time of a file written after the snapshots.
Later == CHOOSE t \in 1..(Cardinality(ModTimes) + 1) : \A m \in ModTimes : t > m

\* The tree an absolute path lies in, and its path below the root there.
PlaceOf(path) ==
    IF IsBelow(path, sc.cleanSrc)
    THEN [side |-> "src", rel |-> Rel(sc.cleanSrc, path)]
    ELSE [side |-> "dst", rel |-> Rel(sc.dstRoot, path)]

TreeOf(fs, side) == IF side = "src" THEN fs.src ELSE fs.dst
WithTree(fs, side, tree) ==
    IF side = "src" THEN [fs EXCEPT !.src = tree] ELSE [fs EXCEPT !.dst = tree]

\* The directories above rel.
Above(rel) == {r \in RelPaths : IsBelow(rel, r)}

\* os.MkdirAll(filepath.Dir(dst)): fails when a file is in the way.
BlockedByFile(tree, rel) == \E r \in Above(rel) : tree[r].kind = "file"
MkdirAll(tree, rel) ==
    IF BlockedByFile(tree, rel) THEN tree
    ELSE [r \in RelPaths |-> IF r \in Above(rel) THEN Directory ELSE tree[r]]

\* Whether a file can be created at rel after MkdirAll, and the tree with
\* a file of n bytes created or truncated and written there.
CanCreate(tree, rel) == ~BlockedByFile(tree, rel) /\ tree[rel].kind # "dir"
Written(tree, rel, n) ==
    [MkdirAll(tree, rel) EXCEPT
        ![rel] = [kind |-> "file", size |-> n, mtime |-> Later]]

\* copyFileOn(src, dst) on the trees: the directories of dst are made, src
\* is opened, dst is created or truncated and gets the bytes of src.
copyFileOn(fs, src, dst) ==
    LET from == PlaceOf(src)
        to == PlaceOf(dst)
        made == WithTree(fs, to.side, MkdirAll(TreeOf(fs, to.side), to.rel))
        e == TreeOf(made, from.side)[from.rel]
        tree == TreeOf(fs, to.side)
    IN IF e.kind = "absent" \/ ~CanCreate(tree, to.rel) THEN made
       ELSE WithTree(fs, to.side,
                     Written(tree, to.rel, IF e.kind = "file" THEN e.size ELSE 0))

\* Executor.copyBatch on the trees: the entries are written in order, each with the bytes of its
\* tar member, up to the first one that cannot be.
RECURSIVE copyBatchOn(_, _)
copyBatchOn(fs, entries) ==
    IF entries = <<>> THEN fs
    ELSE LET to == PlaceOf(Head(entries).Destination)
             tree == TreeOf(fs, to.side)
         IN IF ~CanCreate(tree, to.rel)
            THEN WithTree(fs, to.side, MkdirAll(tree, to.rel))
            ELSE copyBatchOn(WithTree(fs, to.side,
                                    Written(tree, to.rel, Head(entries).Size)),
                           Tail(entries))

\* deletePath: os.RemoveAll.
deletePath(fs, path) ==
    LET at == PlaceOf(path)
        tree == TreeOf(fs, at.side)
    IN WithTree(fs, at.side,
                [r \in RelPaths |->
                    IF r = at.rel \/ IsBelow(r, at.rel) THEN Absent ELSE tree[r]])

\* Executor.RunTask on the trees.
RunTaskOn(fs, t) ==
    IF t.Action = ActionCopy THEN copyFileOn(fs, t.Src, t.Dst)
    ELSE IF t.Action = ActionCopyBatch THEN copyBatchOn(fs, t.Batch.Entries)
    ELSE deletePath(fs, t.Dst)

\* A worker of the pool that runs beside Scan executes one of the tasks
\* Scan has sent, in any order.
WorkerChangesTree ==
    /\ previous.ran
    /\ spc # "idle"
    /\ \E i \in (1..Len(tasks)) \ executed :
          /\ fsys' = RunTaskOn(fsys, tasks[i])
          /\ executed' = executed \cup {i}
    /\ UNCHANGED <<args, spc, sc, idx, pending, batcher, tasks, scanErr,
                   previous>>
    /\ UNCHANGED <<Workers, toSend, sent, tasksClosed, wpc, wout, results,
                   resultsClosed, errs, errsClosed, report, cpc, mpc,
                   firstErr, ret, errLog>>
    /\ UNCHANGED batchVars
    /\ UNCHANGED execVars

\* After a Scan that ran alone returned nil, Scan is called on the same
\* inputs beside a worker pool that receives its tasks (RunSync).
ScanBesidePool ==
    /\ spc = "returned"
    /\ scanErr = NoError
    /\ ~previous.ran
    /\ previous' = [ran |-> TRUE, mode |-> args.mode, tasks |-> tasks,
                    err |-> scanErr]
    /\ spc' = "idle"
    /\ sc' = NoLocals
    /\ idx' = 0
    /\ batcher' = newCopyBatcher
    /\ tasks' = <<>>
    /\ scanErr' = NoError
    /\ UNCHANGED <<fsys, args, pending>>
    /\ ScanFrame
    /\ UNCHANGED batchVars
    /\ UNCHANGED execVars

BesideNext ==
    \/ ScanBegin
    \/ ScanSourceKey(ReadNow)
    \/ ScanFlush
    \/ MirrorFileKey
    \/ MirrorDirectories
    \/ SyncDstOnlyKey(ReadNow)
    \/ SyncDstOnlyDone
    \/ SyncSharedKey(ReadNow)
    \/ SyncFlush
    \/ ScanBesidePool
    \/ WorkerChangesTree

\* Scan alone, then Scan on the same inputs while workers execute the
\* tasks it sends; a read fails when the file is no longer what the
\* snapshot says.
BesideSpec == ScanInit /\ [][BesideNext]_vars

\* Scan over every pair of trees, each mode and each choice of options.
ScanSpec == ScanInit /\ [][ScanNext]_vars

\* ------------------------------------------- Scan's arguments and roots
\* The tree with no entry.
EmptyTree == [r \in RelPaths |-> Absent]

\* What can be below a root of a kind: any tree below a directory, nothing
\* below a root that does not exist or is no directory.
TreesBelow(kind) == IF kind = "dir" THEN Trees ELSE {EmptyTree}

\* Scan with src or dst empty or not, over roots of every kind, one of
\* them at least not an existing directory.
RootInit ==
    /\ PoolParked
    /\ \E sk \in RootKinds : \E dk \in RootKinds :
          /\ sk # "dir" \/ dk # "dir"
          /\ fsys \in [src : TreesBelow(sk), dst : TreesBelow(dk),
                        srcRoot : {sk}, dstRoot : {dk}]
    /\ args \in [src : {<<>>, SrcArg}, dst : {<<>>, DstArg},
                 includeDir : BOOLEAN, mode : Modes, opts : OptionChoices]
    /\ spc = "idle"
    /\ sc = NoLocals
    /\ idx = 0
    /\ pending = {}
    /\ batcher = newCopyBatcher
    /\ tasks = <<>>
    /\ scanErr = NoError
    /\ previous = NoRun

\* After a Scan that returned nil, an empty directory is made at every
\* root that did not exist, and the caller calls Scan once more with the
\* same arguments.
RootCreated ==
    /\ spc = "returned"
    /\ scanErr = NoError
    /\ ~previous.ran
    /\ "missing" \in {fsys.srcRoot, fsys.dstRoot}
    /\ previous' = [ran |-> TRUE, mode |-> args.mode, tasks |-> tasks,
                    err |-> scanErr]
    /\ fsys' = [fsys EXCEPT !.srcRoot = "dir", !.dstRoot = "dir"]
    /\ spc' = "idle"
    /\ sc' = NoLocals
    /\ idx' = 0
    /\ batcher' = newCopyBatcher
    /\ tasks' = <<>>
    /\ scanErr' = NoError
    /\ UNCHANGED <<args, pending>>
    /\ UNCHANGED poolVars
    /\ UNCHANGED batchVars
    /\ UNCHANGED execVars

RootNext ==
    \/ ScanBegin
    \/ ScanSourceKey({"none"})
    \/ ScanFlush
    \/ MirrorFileKey
    \/ MirrorDirectories
    \/ SyncDstOnlyKey({"none"})
    \/ SyncDstOnlyDone
    \/ SyncSharedKey({"none"})
    \/ SyncFlush
    \/ RootCreated

\* Scan on arguments and roots it may refuse, run again once the roots
\* that did not exist are empty directories; no read fails.
RootSpec == RootInit /\ [][RootNext]_vars

RescanSpec == ScanInit /\ [][RescanNext]_vars

\* The scanner while only the pool runs.
ScanParked ==
    /\ fsys = [src |-> [r \in RelPaths |-> Absent], dst |-> [r \in RelPaths |-> Absent],
               srcRoot |-> "dir", dstRoot |-> "dir"]
    /\ args = [src |-> SrcArg, dst |-> DstArg, includeDir |-> FALSE,
               mode |-> ModeUpdate, opts |-> Options(0, 0, 0)]
    /\ spc = "idle" /\ sc = NoLocals /\ idx = 0 /\ pending = {}
    /\ batcher = newCopyBatcher /\ tasks = <<>> /\ scanErr = NoError
    /\ previous = NoRun
    /\ call = NoCall /\ run = NotRun
    /\ heap = <<>> /\ rep = NoReports /\ cf = NotCopied
    /\ UnitsParked

\* Pool.Run is entered: New has normalised the worker count, the producer
\* holds the tasks it will send, the channels are empty and open, and the
\* worker and collector goroutines stand at their receive.
PoolInit ==
    /\ ScanParked
    /\ Workers \in {New(w) : w \in 0..MaxWorkers}
    /\ toSend \in 0..MaxTasks
    /\ sent = 0
    /\ tasksClosed = FALSE
    /\ wpc = [w \in 1..Workers |-> "recv"]
    /\ wout = [w \in 1..Workers |-> NoOutcome]
    /\ results = <<>>
    /\ resultsClosed = FALSE
    /\ errs = <<>>
    /\ errsClosed = FALSE
    /\ report = newReport
    /\ cpc = "recv"
    /\ mpc = "wait"
    /\ firstErr = NilErr
    /\ ret = [returned |-> FALSE, report |-> NilReport, err |-> NilErr]
    /\ errLog = <<>>
    /\ executed = {}

\* One run of the pool over a producer's channel.
PoolSpec == PoolInit /\ [][PoolNext]_vars

\* Every goroutine that can take a step eventually takes one: the Go
\* scheduler runs every runnable goroutine, and by assumption every task
\* execution finishes and the producer closes the channel.
PoolFairness ==
    /\ \A w \in 1..MaxWorkers : WF_vars(w \in WorkerIds /\ WorkerStep(w))
    /\ WF_vars(ProducerClose)
    /\ WF_vars(CollectorAdd)
    /\ WF_vars(CollectorExit)
    /\ WF_vars(RunCloseResults)
    /\ WF_vars(RunDrainErrs)
    /\ WF_vars(RunReturn)

FairPoolSpec == PoolSpec /\ PoolFairness

\* ------------------------------------------------- Executor.copyBatch
\* filepath.Dir: the path up to its last separator, cleaned.
Dir(p) ==
    LET seps == {i \in 1..Len(p) : p[i] = PathSeparator} IN
    IF seps = {} THEN Dot
    ELSE Clean(SubSeq(p, 1, CHOOSE i \in seps : \A j \in seps : j <= i))

\* The destination as the executor sees it: files maps the path of every
\* regular file to its bytes; a directory is there when a file lies below
\* it.  os.MkdirAll fails when dir or one of its ancestors is a regular
\* file; os.Create fails when path is a directory.
MkdirAllFails(dir, files) ==
    \E q \in DOMAIN files : q = dir \/ HasPrefix(dir, q \o <<PathSeparator>>)

CreateFails(path, files) ==
    \E q \in DOMAIN files : HasPrefix(q, path \o <<PathSeparator>>)

Min(a, b) == IF a < b THEN a ELSE b

\* What a run of the executor leaves: the files, the bytes written, the error.
Ran(files, bytes, err) == [files |-> files, bytes |-> bytes, err |-> err]

\* The loop of Executor.copyBatch from entry i on: the next header of the
\* archive, the destination's directory and file, the member's bytes up to
\* the size of the entry.  The tar reader gives the bytes the member has,
\* whatever header.Size is set to after Next, and reports an unexpected EOF
\* when the archive ends before the size its header states.
RECURSIVE copyBatchFrom(_, _, _, _)
copyBatchFrom(payload, i, files, totalBytes) ==
    IF i > Len(payload.Entries) THEN Ran(files, totalBytes, NoError)
    ELSE IF i > Len(payload.Archive)
    THEN Ran(files, totalBytes, "reading batch entry")
    ELSE LET entry == payload.Entries[i]
             header == payload.Archive[i]
             size == IF entry.Size >= 0 /\ header.Size # entry.Size
                     THEN entry.Size ELSE header.Size
         IN IF MkdirAllFails(Dir(entry.Destination), files)
            THEN Ran(files, totalBytes, "mkdir")
            ELSE IF CreateFails(entry.Destination, files)
            THEN Ran(files, totalBytes, "create")
            ELSE LET written == SubSeq(header.Payload, 1,
                                       Min(size, Len(header.Payload)))
                 IN IF Len(header.Payload) < Min(size, header.Size)
                    THEN Ran((entry.Destination :> written) @@ files,
                             totalBytes + Len(written), "unexpected EOF")
                    ELSE copyBatchFrom(payload, i + 1,
                                       (entry.Destination :> written) @@ files,
                                       totalBytes + Len(written))

\* Executor.copyBatch on a destination that holds files.
copyBatch(payload, files) == copyBatchFrom(payload, 1, files, 0)

\* The destination with nothing in it.
EmptyDestination == [q \in {} |-> <<>>]

\* ------------------------------------------- the batcher, call by call
\* The number of calls of the batcher in one run.
MaxCalls == 4

\* Every setting of the three options, from a negative threshold to one
\* that admits every file, with limits below and above what a run can add.
BatchOptions ==
    [BatchThreshold : (-1)..MaxSize, BatchMaxFiles : 0..(MaxCalls - 1),
     BatchMaxBytes : 0..(MaxSize + 1)]

\* The key of the k-th file of a flat source directory: f1, f2, ...
FlatKey(k) == <<102>> \o Decimal(k)

\* Scan over a flat source directory and an empty destination comes to
\* this: a new batcher, then one Add per file in ascending key order.
BatchInit ==
    /\ PoolParked
    /\ fsys = [src |-> [r \in RelPaths |-> Absent], dst |-> [r \in RelPaths |-> Absent],
               srcRoot |-> "dir", dstRoot |-> "dir"]
    /\ args \in [src : {SrcArg}, dst : {DstArg}, includeDir : {FALSE},
                 mode : {ModeUpdate}, opts : BatchOptions]
    /\ spc = "srcLoop"
    /\ sc = NoLocals
    /\ idx = 0
    /\ pending = {}
    /\ batcher = newCopyBatcher
    /\ tasks = <<>>
    /\ scanErr = NoError
    /\ previous = NoRun

\* b.Add(src, dst, info, tasks) for the next file, of any size, read with
\* or without a fault; an error ends the run, as Scan returns it.
BatcherAdd ==
    /\ spc = "srcLoop"
    /\ scanErr = NoError
    /\ idx < MaxCalls
    /\ \E size \in 0..MaxSize : \E fault \in Faults :
          /\ fault = "short" => size > 0
          /\ LET key == FlatKey(idx + 1)
                 src == Join(Clean(args.src), key)
                 dst == Join(Clean(args.dst), key)
                 info == [kind |-> "file", size |-> size, mtime |-> 1]
                 r == Add(batcher, args.opts, src, dst, info, fault)
             IN /\ batcher' = r.b
                /\ tasks' = tasks \o r.out
                /\ scanErr' = r.err
                /\ call' = [n |-> idx + 1, op |-> "Add", src |-> src,
                            dst |-> dst, size |-> size]
    /\ idx' = idx + 1
    /\ UNCHANGED <<fsys, args, spc, sc, pending, previous, run>>
    /\ UNCHANGED poolVars
    /\ UNCHANGED execVars

\* b.Flush(tasks)
BatcherFlush ==
    /\ spc = "srcLoop"
    /\ scanErr = NoError
    /\ idx < MaxCalls
    /\ LET f == Flush(batcher, args.opts) IN
          /\ batcher' = f.b
          /\ tasks' = tasks \o f.out
          /\ scanErr' = f.err
    /\ call' = [n |-> idx + 1, op |-> "Flush", src |-> <<>>, dst |-> <<>>,
                size |-> 0]
    /\ idx' = idx + 1
    /\ UNCHANGED <<fsys, args, spc, sc, pending, previous, run>>
    /\ UNCHANGED poolVars
    /\ UNCHANGED execVars

BatchNext ==
    \/ BatcherAdd
    \/ BatcherFlush

\* The batcher under every sequence of calls.
BatchSpec == BatchInit /\ [][BatchNext]_vars

\* ------------------------------------ Scan, and the executor on a batch
\* Scan over every source tree, the destination tree being empty.
ScanToEmptyInit ==
    /\ ScanInit
    /\ fsys.dst = [r \in RelPaths |-> Absent]

\* Executor.RunTask on one CopyBatch task of the stream, the destination
\* being empty: the case task.ActionCopyBatch, which calls copyBatch.
ExecuteBatch ==
    /\ run.task = 0
    /\ \E i \in 1..Len(tasks) :
          /\ tasks[i].Action = ActionCopyBatch
          /\ LET r == copyBatch(tasks[i].Batch, EmptyDestination) IN
             run' = [task |-> i, files |-> r.files, bytes |-> r.bytes,
                     err |-> r.err]
    /\ UNCHANGED <<call>>
    /\ UNCHANGED scanVars
    /\ UNCHANGED poolVars
    /\ UNCHANGED execVars

\* The destination holds no file, so the range over dstFiles in
\* enqueueMirrorDeletes and the range over dstKeys in enqueueSyncTasks have
\* no iteration; every other step of Scan is here.
ScanRunNext ==
    \/ ScanBegin
    \/ ScanSourceKey(Faults)
    \/ ScanFlush
    \/ MirrorDirectories
    \/ SyncDstOnlyDone
    \/ SyncSharedKey(Faults)
    \/ SyncFlush
    \/ ExecuteBatch

\* One invocation of Scan towards an empty destination, and a worker that
\* takes one batch off the stream and runs it.
ScanRunSpec == ScanToEmptyInit /\ [][ScanRunNext]_vars

\* ===================================================================
\* RunTask on a CopyBatch task of any origin
\* ===================================================================
\* The destinations of the two entries a payload may have.
PayloadDsts == <<Join(DstArg, <<97>>), Join(DstArg, <<97, 47, 98>>)>>
PayloadSrcs == <<Join(SrcArg, <<97>>), Join(SrcArg, <<97, 47, 98>>)>>

\* The payloads a CopyBatch task may carry: one or two entries with any
\* size, -1 included, and a well-formed archive of up to two members with
\* any number of bytes each, named as the batcher names them.
Payloads ==
    {[Entries |-> [i \in 1..n |->
                      CopyBatchEntry(PayloadSrcs[i], PayloadDsts[i], es[i])],
      Archive |-> [i \in 1..m |->
                      [Name |-> MemberName(i - 1), Size |-> ms[i],
                       Payload |-> FileBytes(PayloadSrcs[i], ms[i])]]] :
        n \in 1..2, m \in 0..2,
        es \in [1..2 -> (-1)..MaxSize], ms \in [1..2 -> 0..MaxSize]}

\* A CopyBatch task is on the channel; nothing of Scan is running.
PayloadInit ==
    /\ PoolParked
    /\ fsys = [src |-> [r \in RelPaths |-> Absent], dst |-> [r \in RelPaths |-> Absent],
               srcRoot |-> "dir", dstRoot |-> "dir"]
    /\ args = [src |-> SrcArg, dst |-> DstArg, includeDir |-> FALSE,
               mode |-> ModeUpdate, opts |-> Options(0, 0, 0)]
    /\ spc = "returned" /\ sc = NoLocals /\ idx = 0 /\ pending = {}
    /\ batcher = newCopyBatcher
    /\ \E payload \in Payloads :
          tasks = <<CopyBatchTask(payload.Entries, payload.Archive)>>
    /\ scanErr = NoError
    /\ previous = NoRun

PayloadNext == ExecuteBatch

\* The executor run on one CopyBatch task, whatever its payload.
PayloadSpec == PayloadInit /\ [][PayloadNext]_vars

\* ===================================================================
\* A Report used directly
\* ===================================================================
\* Largest number of Record calls on the Report and on the restored one.
MaxRecords == 3

\* The task reports a caller records: copies of two sizes, a second copy
\* to the destination of one of them, a batch of two entries, a delete and
\* a report with an unknown action that both carry a byte count; n is the
\* number of batch entries.
RecordArgs ==
    {[Action |-> ActionCopy, Destination |-> <<2, 0>>, Bytes |-> 2, n |-> 0],
     [Action |-> ActionCopy, Destination |-> <<1, 0>>, Bytes |-> 2, n |-> 0],
     [Action |-> ActionCopy, Destination |-> <<1, 0>>, Bytes |-> 1, n |-> 0],
     [Action |-> ActionCopyBatch, Destination |-> <<1, 1>>, Bytes |-> 3, n |-> 2],
     [Action |-> ActionDelete, Destination |-> <<1, 0>>, Bytes |-> 1, n |-> 0],
     [Action |-> ActionUnknown, Destination |-> <<1, 0>>, Bytes |-> 1, n |-> 0]}

\* The entries of a batch report: source and destination stand behind i.
BatchEntriesOf(n) == [i \in 1..n |-> [Destination |-> i, Size |-> i]]

\* The *TaskReport handed to Record: BatchEntries is a slice of the
\* caller's, in an array of the caller's.
TaskReportAt(h, k) ==
    [heap |-> IF k.n > 0 THEN Append(h, BatchEntriesOf(k.n)) ELSE h,
     tr |-> [Action |-> k.Action, Destination |-> k.Destination,
             Bytes |-> k.Bytes,
             BatchEntries |-> IF k.n > 0
                              THEN [arr |-> Len(h) + 1, len |-> k.n, cap |-> k.n]
                              ELSE NilSlice]]

ReportInit ==
    /\ PoolParked
    /\ ScanParked

\* report := NewReport()
ReportNew ==
    /\ rep.r = NoReport
    /\ rep' = [rep EXCEPT !.r = NewReport(1)]
    /\ UNCHANGED <<heap, cf>>
    /\ UNCHANGED unitVars
    /\ UNCHANGED <<poolVars, scanVars, batchVars>>

\* report.Record(res) on the Report (until it is snapshotted) or on the
\* restored one; res may be nil.
ReportRecord(on) ==
    /\ rep[on] # NoReport
    /\ on = "r" => rep.restored = NoReport
    /\ rep.n < MaxRecords
    /\ \/ /\ rep' = [rep EXCEPT !.n = @ + 1,
                                !.last = [op |-> "Record", on |-> on,
                                          res |-> NilReport,
                                          bytesBefore |-> rep[on].totalBytes]]
          /\ UNCHANGED heap
       \/ \E k \in RecordArgs :
             LET t == TaskReportAt(heap, k)
                 list == IF k.Action = ActionDelete THEN rep[on].deletes
                         ELSE rep[on].copies
             IN \E newcap \in GrownCaps(list) :
                   LET a == add(t.heap, rep[on], t.tr, newcap) IN
                   /\ heap' = a.heap
                   /\ rep' = [rep EXCEPT ![on] = a.report,
                                         !.n = @ + 1,
                                         !.last = [op |-> "Record", on |-> on,
                                                   res |-> k,
                                                   bytesBefore |-> rep[on].totalBytes]]
    /\ UNCHANGED cf
    /\ UNCHANGED unitVars
    /\ UNCHANGED <<poolVars, scanVars, batchVars>>

\* report.Finalize()
ReportFinalize(on) ==
    /\ rep[on] # NoReport
    /\ on = "r" => rep.restored = NoReport
    /\ \E now \in {2, 3} :
       \E cs \in sortSlice(Elems(heap, rep[on].copies)) :
       \E ds \in sortSlice(Elems(heap, rep[on].deletes)) :
          LET f == Finalize(heap, rep[on], now, cs, ds) IN
          /\ heap' = f.heap
          /\ rep' = [rep EXCEPT ![on] = f.report,
                                !.last = [op |-> "Finalize", on |-> on,
                                          res |-> NilReport,
                                          bytesBefore |-> rep[on].totalBytes]]
    /\ UNCHANGED cf
    /\ UNCHANGED unitVars
    /\ UNCHANGED <<poolVars, scanVars, batchVars>>

\* restored := ReportFromSnapshot(report.Snapshot()); saved is what the
\* Report shows at that time, fresh what the restored one shows.
ReportRestore ==
    /\ rep.r # NoReport
    /\ rep.restored = NoReport
    /\ LET s == ReportSnapshot(heap, rep.r)
           f == ReportFromSnapshot(s.heap, s.snap, 3) IN
       /\ heap' = f.heap
       /\ rep' = [rep EXCEPT !.restored = f.report,
                             !.saved = View(heap, rep.r),
                             !.fresh = View(f.heap, f.report),
                             !.last = [op |-> "Restore", on |-> "restored",
                                       res |-> NilReport,
                                       bytesBefore |-> rep.r.totalBytes]]
    /\ UNCHANGED cf
    /\ UNCHANGED unitVars
    /\ UNCHANGED <<poolVars, scanVars, batchVars>>

ReportNext ==
    \/ ReportNew
    \/ \E on \in {"r", "restored"} : ReportRecord(on)
    \/ \E on \in {"r", "restored"} : ReportFinalize(on)
    \/ ReportRestore

\* A Report from NewReport, the calls of Record and Finalize on it, its
\* snapshot restored, and the calls of Record and Finalize on the restored
\* Report.
ReportSpec == ReportInit /\ [][ReportNext]_vars

\* ===================================================================
\* RunTask on one Copy task
\* ===================================================================
\* The values of Executor.BandwidthLimit: no throttling, throttling.
BandwidthLimits == {0, 1}

CopyInit ==
    /\ PoolParked
    /\ ScanParked

\* RunTask is called on a Copy task in some state of the file system.
CopyCall ==
    /\ cf.pc = "none"
    /\ \E limit \in BandwidthLimits : \E env \in Environments :
          cf' = [pc |-> "called", limit |-> limit, env |-> env]
    /\ UNCHANGED <<heap, rep>>
    /\ UNCHANGED unitVars
    /\ UNCHANGED <<poolVars, scanVars, batchVars>>

\* RunTask returns.
CopyReturn ==
    /\ cf.pc = "called"
    /\ cf' = [pc |-> "done", limit |-> cf.limit, env |-> cf.env,
              out |-> RunTaskCopy(cf.limit, cf.env)]
    /\ UNCHANGED <<heap, rep>>
    /\ UNCHANGED unitVars
    /\ UNCHANGED <<poolVars, scanVars, batchVars>>

CopyNext ==
    \/ CopyCall
    \/ CopyReturn

\* One call of RunTask on a Copy task, in every state of the file system.
CopySpec == CopyInit /\ [][CopyNext]_vars

\* ===================================================================
\* The batch tuner called directly
\* ===================================================================
\* The sizes the tuner works with, in bytes, and the numbers of files.
SmallFileCutoff == 512 * 1024
MinThreshold == 4 * 1024
MinBatchBytes == 1024 * 1024
MaxBatchBytes == 8 * 1024 * 1024
MinBatchFiles == 8
MaxBatchFiles == 512
SmallFilesNeeded == 4

\* The options RunScan and RunSync hand to Scan: the three limits from the
\* flags; AutoTuneBatching from the configuration's default, replaced by
\* a forced value when there is one, else by the flag when it is exposed.
ScanOptionsDroppingMaxFiles(flags, cfg) ==
    [BatchThreshold |-> flags.batchThreshold,
     BatchMaxFiles |-> 0,
     BatchMaxBytes |-> flags.batchMaxBytes,
     AutoTuneBatching |-> IF cfg.Forced # "nil" THEN cfg.Forced = "true"
                          ELSE IF cfg.EnableFlag THEN flags.autoBatch
                          ELSE cfg.Default]

ScanOptions(flags, cfg) ==
    [BatchThreshold |-> flags.batchThreshold,
     BatchMaxFiles |-> flags.batchMaxFiles,
     BatchMaxBytes |-> flags.batchMaxBytes,
     AutoTuneBatching |-> IF cfg.Forced # "nil" THEN cfg.Forced = "true"
                          ELSE IF cfg.EnableFlag THEN flags.autoBatch
                          ELSE cfg.Default]

Max(a, b) == IF a > b THEN a ELSE b
Clamp(x, lo, hi) == IF x < lo THEN lo ELSE IF x > hi THEN hi ELSE x

RECURSIVE SumOf(_)
SumOf(s) == IF s = <<>> THEN 0 ELSE s[1] + SumOf(Tail(s))

\* A list of sizes in ascending order.
RECURSIVE Ascending(_)
Ascending(s) ==
    IF s = <<>> THEN <<>>
    ELSE LET i == CHOOSE i \in 1..Len(s) : \A j \in 1..Len(s) : s[i] <= s[j]
         IN <<s[i]>> \o Ascending(SubSeq(s, 1, i - 1) \o SubSeq(s, i + 1, Len(s)))

\* The percentile num/den of an ascending list: the element at index
\* ceil(p * n) - 1 counted from zero, the index clamped to [0, n - 1].
Percentile(sorted, num, den) ==
    LET n == Len(sorted)
        ceil == (num * n + den - 1) \div den
    IN sorted[Clamp(ceil - 1, 0, n - 1) + 1]

\* The small files the tuner looks at: negative sizes dropped, then the
\* sizes of at most the cutoff.
SmallSizes(sizes) ==
    SelectSeq(SelectSeq(sizes, LAMBDA x : x >= 0),
              LAMBDA x : x <= SmallFileCutoff)

\* tune(opts, srcFiles): the set of results the contract allows. It is one
\* result, except when every small file is empty: the contract divides
\* targetBatchBytes by an average of zero there and leaves the quotient
\* open, so maxFiles is any value of its clamp's range.
tune(opts, sizes) ==
    LET small == Ascending(SmallSizes(sizes)) IN
    IF \/ ~opts.AutoTuneBatching
       \/ opts.BatchThreshold # 0
       \/ opts.BatchMaxFiles # 0
       \/ opts.BatchMaxBytes # 0
    THEN {opts}
    ELSE IF Len(small) < SmallFilesNeeded THEN {opts}
    ELSE LET avg == SumOf(small) \div Len(small)
             p50 == Percentile(small, 1, 2)
             p90 == Percentile(small, 9, 10)
             threshold == Clamp(Max(p90, Max(2 * p50, MinThreshold)),
                                MinThreshold, SmallFileCutoff)
             targetBatchBytes == Clamp(avg * 64,
                                       Max(MinBatchBytes, threshold * 4),
                                       MaxBatchBytes)
             files == IF avg = 0 THEN MinBatchFiles..MaxBatchFiles
                      ELSE {Clamp(targetBatchBytes \div avg,
                                  MinBatchFiles, MaxBatchFiles)}
         IN {[opts EXCEPT !.BatchThreshold = threshold,
                          !.BatchMaxFiles = f,
                          !.BatchMaxBytes = targetBatchBytes] : f \in files}

\* The number of source files the tuner is given.
MaxSrcFiles == 5

\* The sizes of the source files: none, empty, below and at the least
\* threshold, at the small-file cutoff and above it.
TunerSizes == {-1, 0, 3 * 1024, SmallFileCutoff, SmallFileCutoff + 1}

\* The values of the three limit flags: not given, given.
FlagValues == {0, 1}

\* AutoBatchConfig: Forced is nil or points at a boolean
AutoBatchConfigs ==
    [EnableFlag : BOOLEAN, Default : BOOLEAN, Forced : {"nil", "true", "false"}]

TunerFlags ==
    [batchThreshold : FlagValues, batchMaxFiles : FlagValues,
     batchMaxBytes : FlagValues, autoBatch : BOOLEAN]

TunerInit ==
    /\ PoolParked
    /\ ScanParked

\* The command parses its flags and builds the options.
TunerParse ==
    /\ tuning.pc = "none"
    /\ \E flags \in TunerFlags : \E cfg \in AutoBatchConfigs :
          tuning' = [pc |-> "parsed", flags |-> flags, cfg |-> cfg,
                     opts |-> ScanOptions(flags, cfg)]
    /\ UNCHANGED <<poolVars, scanVars, batchVars, heap, rep, cf, store, pace, conf>>

\* The tuner is called with the options and the source files found.
TunerTune ==
    /\ tuning.pc = "parsed"
    /\ \E n \in 0..MaxSrcFiles : \E sizes \in [1..n -> TunerSizes] :
       \E out \in tune(tuning.opts, sizes) :
          tuning' = [pc |-> "tuned", flags |-> tuning.flags, cfg |-> tuning.cfg,
                     opts |-> tuning.opts, sizes |-> sizes, out |-> out]
    /\ UNCHANGED <<poolVars, scanVars, batchVars, heap, rep, cf, store, pace, conf>>

TunerNext ==
    \/ TunerParse
    \/ TunerTune

\* One run of the tuner on the options of a command line, for any source
\* files.
TunerSpec == TunerInit /\ [][TunerNext]_vars

\* ===================================================================
\* The batcher with the arrays behind its slices
\* ===================================================================
\* st is the heap with the slices of the batcher: buf (the bytes.Buffer's
\* slice, one slot per archive member), entries, and sent, the Entries and
\* Archive slices of each CopyBatch task sent so far.  b is the batcher as
\* Add and Flush above see it.

\* The capacity the runtime gives a grown array: the least one, or more.
Grown(s, extra) ==
    (CHOOSE m \in GrownCaps(s) : \A k \in GrownCaps(s) : m <= k) + extra

\* make(..., len(x)); copy(..., x): a new array with the elements of s.
freshCopy(h, s) ==
    [heap |-> Append(h, Elems(h, s)),
     slice |-> [arr |-> Len(h) + 1, len |-> s.len, cap |-> s.len]]

\* copyBatcher.reset: entries = nil; buf.Reset() keeps the buffer's array.
resetAt(st) ==
    [st EXCEPT !.entries = NilSlice, !.buf = [@ EXCEPT !.len = 0]]

\* A Flush whose task gets the buffer's own bytes, b.buf.Bytes().
flushAtSharingBuf(st, b, opts) ==
    IF ~enabled(opts) THEN st
    ELSE IF Len(b.entries) = 0 THEN resetAt(st)
    ELSE IF b.tw /\ b.missed THEN st
    ELSE LET entries == freshCopy(st.heap, st.entries)
         IN resetAt([st EXCEPT !.heap = entries.heap,
                               !.sent = Append(@, [Entries |-> entries.slice,
                                                   Archive |-> st.buf])])

\* copyBatcher.Flush
flushAt(st, b, opts) ==
    IF ~enabled(opts) THEN st
    ELSE IF Len(b.entries) = 0 THEN resetAt(st)
    ELSE IF b.tw /\ b.missed THEN st
    ELSE LET archive == freshCopy(st.heap, st.buf)
             entries == freshCopy(archive.heap, st.entries)
         IN resetAt([st EXCEPT !.heap = entries.heap,
                               !.sent = Append(@, [Entries |-> entries.slice,
                                                   Archive |-> archive.slice])])

\* The part of Add after the flushes, as AddMember: the header and the
\* bytes go to buf, the entry to entries.
addMemberAt(st, b0, opts, src, dst, info, fault, extra) ==
    LET b == [b0 EXCEPT !.tw = TRUE] IN
    IF fault = "open" THEN st
    ELSE IF fault = "header" \/ b.missed THEN resetAt(st)
    ELSE LET written == IF fault \in {"short", "copy"} THEN info.size - 1
                        ELSE info.size
             member == [Name |-> MemberName(Len(b.entries)),
                        Size |-> info.size,
                        Payload |-> FileBytes(src, IF written < 0 THEN 0 ELSE written)]
             buf == append(st.heap, st.buf, member, Grown(st.buf, extra))
         IN IF fault = "copy"
            THEN resetAt([st EXCEPT !.heap = buf.heap, !.buf = buf.slice])
            ELSE LET entries == append(buf.heap, st.entries,
                                       CopyBatchEntry(src, dst, info.size),
                                       Grown(st.entries, extra))
                     st2 == [st EXCEPT !.heap = entries.heap, !.buf = buf.slice,
                                       !.entries = entries.slice]
                     b2 == [b EXCEPT
                              !.buf = Append(@, member),
                              !.missed = (written < info.size),
                              !.entries = Append(@, CopyBatchEntry(src, dst, info.size)),
                              !.totalBytes = @ + info.size]
                 IN IF reachedLimits(b2, opts) THEN flushAt(st2, b2, opts) ELSE st2

\* copyBatcher.Add
addAt(st, b, opts, src, dst, info, fault, extra) ==
    IF ~enabled(opts) THEN st
    ELSE IF info.size > opts.BatchThreshold THEN flushAt(st, b, opts)
    ELSE IF ~canAdd(b, opts, info.size)
    THEN LET f == Flush(b, opts) IN
         IF f.err # NoError THEN flushAt(st, b, opts)
         ELSE addMemberAt(flushAt(st, b, opts), f.b, opts, src, dst, info,
                          fault, extra)
    ELSE addMemberAt(st, b, opts, src, dst, info, fault, extra)

\* The batcher's slices with the heap they point into.
Stored == [heap |-> heap, buf |-> store.buf, entries |-> store.entries,
           sent |-> store.sent]

\* The options the batcher is made with: those of OptionChoices, a limit
\* of one file, a limit of bytes that one large file reaches.
StoreOptions ==
    OptionChoices \cup {Options(MaxSize, 1, 0), Options(MaxSize, 0, MaxSize)}

StoreInit ==
    /\ BatchInit
    /\ args.opts \in StoreOptions

\* b.Add(src, dst, info, tasks), as BatcherAdd, with the arrays it writes.
StoreAdd ==
    /\ spc = "srcLoop"
    /\ scanErr = NoError
    /\ idx < MaxCalls
    /\ \E size \in 0..MaxSize : \E fault \in Faults : \E extra \in {0, 1} :
          /\ fault = "short" => size > 0
          /\ LET key == FlatKey(idx + 1)
                 src == Join(Clean(args.src), key)
                 dst == Join(Clean(args.dst), key)
                 info == [kind |-> "file", size |-> size, mtime |-> 1]
                 r == Add(batcher, args.opts, src, dst, info, fault)
                 st == addAt(Stored, batcher, args.opts, src, dst, info, fault,
                             extra)
             IN /\ batcher' = r.b
                /\ tasks' = tasks \o r.out
                /\ scanErr' = r.err
                /\ call' = [n |-> idx + 1, op |-> "Add", src |-> src,
                            dst |-> dst, size |-> size]
                /\ heap' = st.heap
                /\ store' = [buf |-> st.buf, entries |-> st.entries,
                             sent |-> st.sent]
    /\ idx' = idx + 1
    /\ UNCHANGED <<fsys, args, spc, sc, pending, previous, run>>
    /\ UNCHANGED <<poolVars, rep, cf, tuning, pace, conf>>

\* b.Flush(tasks)
StoreFlush ==
    /\ spc = "srcLoop"
    /\ scanErr = NoError
    /\ idx < MaxCalls
    /\ LET f == Flush(batcher, args.opts)
           st == flushAt(Stored, batcher, args.opts)
       IN /\ batcher' = f.b
          /\ tasks' = tasks \o f.out
          /\ scanErr' = f.err
          /\ heap' = st.heap
          /\ store' = [buf |-> st.buf, entries |-> st.entries, sent |-> st.sent]
    /\ call' = [n |-> idx + 1, op |-> "Flush", src |-> <<>>, dst |-> <<>>,
                size |-> 0]
    /\ idx' = idx + 1
    /\ UNCHANGED <<fsys, args, spc, sc, pending, previous, run>>
    /\ UNCHANGED <<poolVars, rep, cf, tuning, pace, conf>>

StoreNext ==
    \/ StoreAdd
    \/ StoreFlush

\* The batcher under every sequence of calls, with the arrays its slices
\* and those of the tasks point into.
StoreSpec == StoreInit /\ [][StoreNext]_vars

\* ===================================================================
\* copyWithBandwidth under a bandwidth limit
\* ===================================================================
\* The clock counts ticks; a second has this many (time.Second, scaled).
TicksPerSecond == 3

\* The limits in bytes per second: one that divides a second and one that
\* does not.
PaceLimits == {1, 2}

\* The clock stops when the longest copy has had time to end.
LastTick == (MaxSize + 1) * TicksPerSecond

\* "bufSize := 32 * 1024; if int64(bufSize) > limit { bufSize = int(limit) }"
BufSize(limit) == IF 32 * 1024 > limit THEN limit ELSE 32 * 1024

\* An expectedDuration that leaves the chunk being written out.
expectedDurationBeforeChunk(written, n, limit) ==
    (written * TicksPerSecond) \div limit

\* time.Duration(float64(written+int64(n)) * float64(time.Second) /
\* float64(limit)): the conversion to Duration drops the fraction.
expectedDuration(written, n, limit) ==
    ((written + n) * TicksPerSecond) \div limit

\* NewExecutor(verbose, bandwidthLimit) with a limit above zero.
PaceNewExecutor ==
    /\ pace.limit = 0
    /\ \E limit \in PaceLimits : pace' = [pace EXCEPT !.limit = limit]
    /\ UNCHANGED <<poolVars, scanVars, batchVars, heap, rep, cf, tuning, store, conf>>

\* The copies under way.
Copying == {c \in Copiers : pace.copy[c].pc \in {"loop", "chunk"}}

\* Time passes: time.Since(start) grows by a tick in every copy under way.
PaceTick ==
    /\ Copying # {}
    /\ \A c \in Copying : pace.copy[c].elapsed < LastTick
    /\ pace' = [pace EXCEPT !.copy =
                   [c \in Copiers |->
                       IF c \in Copying THEN [@[c] EXCEPT !.elapsed = @ + 1]
                       ELSE @[c]]]
    /\ UNCHANGED <<poolVars, scanVars, batchVars, heap, rep, cf, tuning, store, conf>>

\* A goroutine calls copyWithBandwidth on a file, or on a member of a
\* batch, that has size bytes left to read: start := time.Now().
PaceCall(c) ==
    /\ pace.limit > 0
    /\ pace.copy[c].pc \in {"idle", "done"}
    /\ \E size \in 0..MaxSize :
          pace' = [pace EXCEPT !.copy[c] =
                      [NotCopying EXCEPT !.pc = "loop", !.left = size]]
    /\ UNCHANGED <<poolVars, scanVars, batchVars, heap, rep, cf, tuning, store, conf>>

\* n, readErr := src.Read(buf) gives n > 0 bytes: the goroutine reads the
\* clock and, when expectedDuration is above the time elapsed, sleeps for
\* the difference; wake is the earliest reading of the clock at which
\* time.Sleep returns.
PaceRead(c) ==
    LET k == pace.copy[c] IN
    /\ k.pc = "loop"
    /\ k.left > 0
    /\ \E n \in 1..(IF BufSize(pace.limit) < k.left THEN BufSize(pace.limit)
                    ELSE k.left) :
          LET expected == expectedDuration(k.written, n, pace.limit)
          IN pace' = [pace EXCEPT !.copy[c] =
                         [k EXCEPT !.pc = "chunk", !.n = n,
                                   !.wake = IF expected > k.elapsed
                                            THEN k.elapsed + (expected - k.elapsed)
                                            ELSE k.elapsed]]
    /\ UNCHANGED <<poolVars, scanVars, batchVars, heap, rep, cf, tuning, store, conf>>

\* The sleep is over: hasher.Write(chunk); dst.Write(chunk), which writes
\* all of the chunk or, with an error, a part of it.
PaceWrite(c) ==
    LET k == pace.copy[c] IN
    /\ k.pc = "chunk"
    /\ k.elapsed >= k.wake
    /\ \E wn \in 0..k.n :
          pace' = [pace EXCEPT !.copy[c] =
                      IF wn = k.n
                      THEN [k EXCEPT !.pc = "loop", !.written = @ + wn,
                                     !.left = @ - k.n, !.n = 0, !.wake = 0]
                      ELSE [NotCopying EXCEPT !.pc = "done",
                                              !.written = k.written + wn]]
    /\ UNCHANGED <<poolVars, scanVars, batchVars, heap, rep, cf, tuning, store, conf>>

\* src.Read returns io.EOF (or an error): copyWithBandwidth returns the
\* bytes written.
PaceReturn(c) ==
    /\ pace.copy[c].pc = "loop"
    /\ pace' = [pace EXCEPT !.copy[c] =
                   [NotCopying EXCEPT !.pc = "done",
                                      !.written = pace.copy[c].written]]
    /\ UNCHANGED <<poolVars, scanVars, batchVars, heap, rep, cf, tuning, store, conf>>

PaceInit ==
    /\ PoolParked
    /\ ScanParked

PaceNext ==
    \/ PaceNewExecutor
    \/ PaceTick
    \/ \E c \in Copiers : PaceCall(c)
    \/ \E c \in Copiers : PaceRead(c)
    \/ \E c \in Copiers : PaceWrite(c)
    \/ \E c \in Copiers : PaceReturn(c)

\* Two goroutines of one executor that copy files, and members of batches,
\* one after the other under the executor's limit, while time passes.
PaceSpec == PaceInit /\ [][PaceNext]_vars

\* ===================================================================
\* Config.AgentAllowedTokens called directly
\* ===================================================================
\* The white space strings.TrimSpace cuts: tab, new line, vertical tab,
\* form feed, carriage return, space (and, outside ASCII, U+0085, U+00A0).
IsSpace(ch) == ch \in {9, 10, 11, 12, 13, 32, 133, 160}

\* strings.TrimSpace
RECURSIVE TrimSpace(_)
TrimSpace(s) ==
    IF s = <<>> THEN <<>>
    ELSE IF IsSpace(s[1]) THEN TrimSpace(Tail(s))
    ELSE IF IsSpace(s[Len(s)]) THEN TrimSpace(SubSeq(s, 1, Len(s) - 1))
    ELSE s

\* The tokens a section of the file may give: none, blank, "a", "a" with
\* a space before it, "b" with a space after it, "a b".
ConfigTokens ==
    {<<>>, <<32>>, <<97>>, <<32, 97>>, <<98, 32>>, <<97, 32, 98>>}

\* The agents "x" and "y" and the pools "p", "q" and "r" a Config names;
\* it has a section for "x" at most, and for "p" and "q" at most.
AgentNames == {<<120>>, <<121>>}
PoolNames == {<<112>>, <<113>>, <<114>>}

ListsOver(S) == {<<>>} \cup {<<a>> : a \in S} \cup {<<a, b>> : a \in S, b \in S}

\* Config: Agents and Pools are maps from a name to a section.
Configs ==
    {[Agents |-> agents, Pools |-> pools] :
        agents \in UNION {[d -> [Token : ConfigTokens, Pools : ListsOver(PoolNames)]] :
                             d \in SUBSET {<<120>>}},
        pools \in UNION {[d -> [Token : ConfigTokens,
                                Agents : {<<>>, <<<<120>>>>, <<<<121>>>>,
                                          <<<<121>>, <<120>>>>}]] :
                            d \in SUBSET {<<112>>, <<113>>}}}

\* An AgentAllowedTokens that looks only at the pools the agent lists.
seenTokensOfListedPools(c, agentID) ==
    LET own == IF agentID \in DOMAIN c.Agents
               THEN {c.Agents[agentID].Token}
                    \cup {c.Pools[c.Agents[agentID].Pools[i]].Token :
                             i \in {j \in 1..Len(c.Agents[agentID].Pools) :
                                       c.Agents[agentID].Pools[j] \in DOMAIN c.Pools}}
               ELSE {}
    IN {TrimSpace(t) : t \in own} \ {<<>>}

\* The map seen that AgentAllowedTokens fills through addToken: the token
\* of the agent's section and of the pools it lists that exist, then of
\* every pool with the agent among its members; trimmed, blank ones left out.
seenTokens(c, agentID) ==
    LET own == IF agentID \in DOMAIN c.Agents
               THEN {c.Agents[agentID].Token}
                    \cup {c.Pools[c.Agents[agentID].Pools[i]].Token :
                             i \in {j \in 1..Len(c.Agents[agentID].Pools) :
                                       c.Agents[agentID].Pools[j] \in DOMAIN c.Pools}}
               ELSE {}
        member == {c.Pools[name].Token :
                      name \in {n \in DOMAIN c.Pools :
                                   \E i \in 1..Len(c.Pools[n].Agents) :
                                       c.Pools[n].Agents[i] = agentID}}
    IN {TrimSpace(t) : t \in own \cup member} \ {<<>>}

\* "for token := range seen { tokens = append(tokens, token) }": the keys
\* of the map in any order.
RangeOver(S) == Rearrangements(SortStrings(S))

\* sort.Strings(tokens) on a list of distinct strings
sortStrings(tokens) == SortStrings(Range(tokens))

TokensInit ==
    /\ PoolParked
    /\ ScanParked

\* A Config is loaded.
TokensLoad ==
    /\ conf.pc = "none"
    /\ \E c \in Configs : conf' = [pc |-> "loaded", c |-> c]
    /\ UNCHANGED <<poolVars, scanVars, batchVars, heap, rep, cf, tuning, store, pace>>

\* c.AgentAllowedTokens(agentID), for the first time or again.
TokensCall ==
    /\ conf.pc \in {"loaded", "called"}
    /\ \E agentID \in AgentNames :
       \E tokens \in RangeOver(seenTokens(conf.c, agentID)) :
          conf' = [pc |-> "called", c |-> conf.c, agentID |-> agentID,
                   out |-> sortStrings(tokens)]
    /\ UNCHANGED <<poolVars, scanVars, batchVars, heap, rep, cf, tuning, store, pace>>

TokensNext ==
    \/ TokensLoad
    \/ TokensCall

\* AgentAllowedTokens called, any number of times, on any Config.
TokensSpec == TokensInit /\ [][TokensNext]_vars

\* ===================================================================
\* Claims about Pool.Run
\* ===================================================================

AllSentExecuted == \A i \in 1..sent : \E e \in executed : e.task = i
SomeTaskFailed == \E e \in executed : ~e.ok

\* C1: once the task channel is closed (and every task execution finishes,
\* which the fairness of FairPoolSpec states), Pool.Run eventually returns,
\* whatever the number of workers and of failing tasks.
C1_RunReturnsAfterClose == tasksClosed ~> (mpc = "returned")

\* C2: after a task has failed the workers keep draining the task channel:
\* every task the producer still has to send is eventually received and
\* executed.
C2_DrainsAfterFailure ==
    (SomeTaskFailed /\ toSend > 0) ~> (toSend = 0 /\ AllSentExecuted)

ReportedTasks(r) ==
    {r.copies[i].task : i \in 1..Len(r.copies)}
        \cup {r.deletes[i].task : i \in 1..Len(r.deletes)}

SucceededTasks == {e.task : e \in {x \in executed : x.ok}}

\* What the claim says of the values Run returns.
ReturnedAsClaimed ==
    /\ ret.report # NilReport
    /\ ret.report.CompletedAt # 0
    /\ IsSortedByDestination(ret.report.copies)
    /\ IsSortedByDestination(ret.report.deletes)
    /\ ReportedTasks(ret.report) = SucceededTasks
    /\ Len(ret.report.copies) + Len(ret.report.deletes)
          = Cardinality(SucceededTasks)
    /\ SomeTaskFailed => (errLog # <<>> /\ ret.err = errLog[1])
    /\ ~SomeTaskFailed => ret.err = NilErr

\* C3: when at least one task fails, Pool.Run returns a non-nil Report that
\* is finalized (completion time stamped, both lists ascending by
\* destination) and holds every task that was executed successfully, with
\* the first error a worker reported; when none fails it returns the
\* finalized Report and nil.  Run has returned these, or a step towards
\* its return can still be taken.
C3_ReturnsReportAndFirstError ==
    /\ ret.returned => ReturnedAsClaimed
    /\ (tasksClosed /\ SomeTaskFailed /\ ~ret.returned) => ENABLED PoolNext

\* ------------------------------------------------- the scanner's claims
\* The two roots the keys are relative to, and the kinds of the entries.
SrcRoot == Clean(args.src)
DstRoot ==
    IF args.includeDir THEN Join(Clean(args.dst), Base(Clean(args.src)))
    ELSE Clean(args.dst)

IsFile(tree, r) == tree[r].kind = "file"
IsDir(tree, r) == tree[r].kind = "dir"

\* A copy as the executor will perform it, in each direction.
SrcToDst(r) == [Source |-> Join(SrcRoot, r), Destination |-> Join(DstRoot, r)]
DstToSrc(r) == [Source |-> Join(DstRoot, r), Destination |-> Join(SrcRoot, r)]

\* Every copy from the source tree to the destination tree there can be.
SrcToDstCopies ==
    LET s == SrcRoot
        d == DstRoot
    IN {[Source |-> Join(s, r), Destination |-> Join(d, r)] : r \in RelPaths}

\* The copies of a stream in order: Copy tasks and the entries of CopyBatch
\* tasks.
RECURSIVE CopiesOf(_)
CopiesOf(ts) ==
    IF ts = <<>> THEN <<>>
    ELSE LET t == Head(ts)
             own == IF t.Action = ActionCopy
                    THEN <<[Source |-> t.Src, Destination |-> t.Dst]>>
                    ELSE IF t.Action = ActionCopyBatch
                    THEN [i \in 1..Len(t.Batch.Entries) |->
                            [Source |-> t.Batch.Entries[i].Source,
                             Destination |-> t.Batch.Entries[i].Destination]]
                    ELSE <<>>
         IN own \o CopiesOf(Tail(ts))

IsDelete(t) == t.Action = ActionDelete
IsCopyFamily(t) == t.Action \in {ActionCopy, ActionCopyBatch}

\* The destinations of the Delete tasks of a stream, in order.
RECURSIVE DeletesOf(_)
DeletesOf(ts) ==
    IF ts = <<>> THEN <<>>
    ELSE (IF IsDelete(Head(ts)) THEN <<Head(ts).Dst>> ELSE <<>>)
            \o DeletesOf(Tail(ts))

NoRepeats(s) == \A i \in 1..Len(s) : \A j \in 1..Len(s) : s[i] = s[j] => i = j

ReturnedNil == spc = "returned" /\ scanErr = NoError

\* The key of a source-to-destination copy: its destination relative to the
\* cleaned destination argument, root.
KeyOf(root, c) == Rel(root, c.Destination)

\* C5: in every mode the source-to-destination copies of the stream (Copy
\* tasks and CopyBatch entries read in order) are in strictly ascending
\* lexicographic order of their keys.
C5_SourceCopiesAscend ==
    LET cs == CopiesOf(tasks)
        forward == SrcToDstCopies
        root == Clean(args.dst)
    IN \A i \in 1..Len(cs) : \A j \in 1..Len(cs) :
          (i < j /\ cs[i] \in forward /\ cs[j] \in forward)
              => StringLess(KeyOf(root, cs[i]), KeyOf(root, cs[j]))

\* Scan returned nil after sending one batch that holds two
\* source-to-destination copies.
C5_Witness ==
    /\ ReturnedNil
    /\ \E i \in 1..Len(tasks) :
          /\ tasks[i].Action = ActionCopyBatch
          /\ Len(tasks[i].Batch.Entries) = 2
          /\ Range(CopiesOf(<<tasks[i]>>)) \subseteq SrcToDstCopies

\* The source files Update has to copy, read off the two trees.
UpdateWanted ==
    {r \in RelPaths :
        /\ IsFile(fsys.src, r)
        /\ \/ ~IsFile(fsys.dst, r)
           \/ fsys.src[r].size # fsys.dst[r].size
           \/ fsys.src[r].mtime > fsys.dst[r].mtime}

\* C6: in Update mode every task is a copy, every copy is the
\* source-to-destination copy of a source file that is missing at the
\* destination, differs in size or has the strictly later mtime, no copy
\* is emitted twice, and a scan that returns nil has emitted the copy of
\* every such file.
C6_UpdateCopiesExactlyWanted ==
    args.mode = ModeUpdate =>
        LET cs == CopiesOf(tasks)
            s == SrcRoot
            d == DstRoot
            wanted == {[Source |-> Join(s, r), Destination |-> Join(d, r)] :
                          r \in UpdateWanted}
        IN /\ \A i \in 1..Len(tasks) : IsCopyFamily(tasks[i])
           /\ \A i \in 1..Len(cs) : cs[i] \in wanted
           /\ NoRepeats(cs)
           /\ ReturnedNil => Range(cs) = wanted

\* An Update scan returned nil over trees where one shared file is copied
\* for its later mtime alone and another shared file is left alone.
C6_Witness ==
    /\ args.mode = ModeUpdate
    /\ ReturnedNil
    /\ \E r \in UpdateWanted :
          /\ IsFile(fsys.dst, r)
          /\ fsys.src[r].size = fsys.dst[r].size
          /\ SrcToDst(r) \in Range(CopiesOf(tasks))
    /\ \E r \in RelPaths \ UpdateWanted :
          IsFile(fsys.src, r) /\ IsFile(fsys.dst, r)

\* The destination entries Mirror has to delete, read off the two trees:
\* the files the source has no file for and the directories the source has
\* no directory for.
MirrorFileDeletes ==
    {Join(DstRoot, r) : r \in {x \in RelPaths :
                                  IsFile(fsys.dst, x) /\ ~IsFile(fsys.src, x)}}
MirrorDirDeletes ==
    {Join(DstRoot, r) : r \in {x \in RelPaths :
                                  IsDir(fsys.dst, x) /\ ~IsDir(fsys.src, x)}}

\* C7: in Mirror mode every Delete is of a destination file whose key is
\* not among the source files or of a destination directory whose key is
\* not among the source directories, no Delete is emitted twice, and a scan
\* that returns nil has emitted the Delete of every such file and
\* directory.
C7_MirrorDeletesExactlyMissing ==
    args.mode = ModeMirror =>
        LET ds == DeletesOf(tasks)
            wanted == MirrorFileDeletes \cup MirrorDirDeletes
        IN /\ \A i \in 1..Len(ds) : ds[i] \in wanted
           /\ NoRepeats(ds)
           /\ ReturnedNil => Range(ds) = wanted

\* A Mirror scan returned nil having deleted a file and a directory, over
\* trees that share a directory, which it left alone.
C7_Witness ==
    /\ args.mode = ModeMirror
    /\ ReturnedNil
    /\ \E d \in MirrorFileDeletes : d \in Range(DeletesOf(tasks))
    /\ \E d \in MirrorDirDeletes : d \in Range(DeletesOf(tasks))
    /\ \E r \in RelPaths :
          /\ IsDir(fsys.src, r) /\ IsDir(fsys.dst, r)
          /\ Join(DstRoot, r) \notin Range(DeletesOf(tasks))

\* C9: in Mirror mode, of two deleted directories one of which lies below
\* the other, the Delete of the lower one comes first in the stream.
C9_DescendantDeletedFirst ==
    args.mode = ModeMirror =>
        LET ds == DeletesOf(tasks)
            dirs == MirrorDirDeletes
        IN \A i \in 1..Len(ds) : \A j \in 1..Len(ds) :
              (/\ IsBelow(ds[j], ds[i])
               /\ ds[i] \in dirs
               /\ ds[j] \in dirs) => j < i

\* A Mirror scan returned nil having deleted a directory and two
\* directories below it.
C9_Witness ==
    /\ args.mode = ModeMirror
    /\ ReturnedNil
    /\ LET ds == DeletesOf(tasks) IN
       \E i \in 1..Len(ds) : \E j \in 1..Len(ds) : \E k \in 1..Len(ds) :
          /\ j # k
          /\ {ds[i], ds[j], ds[k]} \subseteq MirrorDirDeletes
          /\ IsBelow(ds[j], ds[i])
          /\ IsBelow(ds[k], ds[i])

\* The destination files Sync has to copy back, read off the two trees.
SyncWanted ==
    {r \in RelPaths :
        /\ IsFile(fsys.dst, r)
        /\ \/ ~IsFile(fsys.src, r)
           \/ fsys.dst[r].mtime > fsys.src[r].mtime}

\* C10: in Sync mode no task is a Delete, every copy from the destination
\* to the source is of a key that is only at the destination or is shared
\* with the strictly later mtime at the destination, and a scan that
\* returns nil has emitted the copy back of every such key.
C10_SyncCopiesBackExactlyWanted ==
    args.mode = ModeSync =>
        LET cs == CopiesOf(tasks)
            forward == SrcToDstCopies
            s == SrcRoot
            d == DstRoot
            back == {[Source |-> Join(d, r), Destination |-> Join(s, r)] :
                        r \in SyncWanted}
        IN /\ \A i \in 1..Len(tasks) : ~IsDelete(tasks[i])
           /\ \A i \in 1..Len(cs) : cs[i] \in forward \/ cs[i] \in back
           /\ ReturnedNil => Range(cs) \ forward = back

\* A Sync scan with the source basename as prefix returned nil having
\* copied back a file that is only at the destination and a shared file
\* that is later there, and not a shared file with equal mtimes.
C10_Witness ==
    /\ args.mode = ModeSync
    /\ args.includeDir
    /\ ReturnedNil
    /\ \E r \in SyncWanted :
          ~IsFile(fsys.src, r) /\ DstToSrc(r) \in Range(CopiesOf(tasks))
    /\ \E r \in SyncWanted :
          IsFile(fsys.src, r) /\ DstToSrc(r) \in Range(CopiesOf(tasks))

\* The tasks of a stream that are not Delete tasks, in order.
RECURSIVE CopyTasksOf(_)
CopyTasksOf(ts) ==
    IF ts = <<>> THEN <<>>
    ELSE (IF IsDelete(Head(ts)) THEN <<>> ELSE <<Head(ts)>>)
            \o CopyTasksOf(Tail(ts))

\* Where a Delete stands in the order enqueueMirrorDeletes imposes: the
\* files first, then the directories by the length of their key.
DeleteRank(d) == IF d \in MirrorFileDeletes THEN 0 ELSE Len(d)

\* Scan has returned nil twice, in the same mode.
RanTwiceInOneMode == previous.ran /\ ReturnedNil /\ previous.mode = args.mode

\* C4 as stated: for fixed trees, mode and options two invocations of Scan
\* emit the same tasks in the same order, in every mode, Mirror included.
C4_SameStreamInEveryMode == RanTwiceInOneMode => tasks = previous.tasks

\* C4 as amended: two invocations emit the same stream in Update and in
\* Sync; in Mirror they emit the same copy tasks in the same order,
\* followed by the same Delete tasks, file deletions first and directory
\* deletions by descending key length, where only the order among the file
\* deletions and among directory deletions of equal length may differ.
C4_SameStreamUpToDeleteOrder ==
    RanTwiceInOneMode =>
        LET ds == DeletesOf(tasks)
            ps == DeletesOf(previous.tasks)
        IN /\ args.mode # ModeMirror => tasks = previous.tasks
           /\ CopyTasksOf(tasks) = CopyTasksOf(previous.tasks)
           /\ Len(tasks) = Len(previous.tasks)
           /\ \A i \in 1..Len(tasks) :
                 IsDelete(tasks[i]) <=> IsDelete(previous.tasks[i])
           /\ Range(ds) = Range(ps)
           /\ [i \in 1..Len(ds) |-> DeleteRank(ds[i])]
                 = [i \in 1..Len(ps) |-> DeleteRank(ps[i])]

\* Two Mirror scans of the same trees returned nil with the same copies
\* and their Delete tasks in different orders.
C4_Witness ==
    /\ RanTwiceInOneMode
    /\ args.mode = ModeMirror
    /\ CopyTasksOf(tasks) # <<>>
    /\ tasks # previous.tasks

\* C8: for the same trees and options the stream of a Mirror scan is the
\* stream of an Update scan followed by Delete tasks only.
C8_MirrorIsUpdateThenDeletes ==
    (/\ previous.ran
     /\ previous.mode = ModeUpdate
     /\ args.mode = ModeMirror
     /\ ReturnedNil) =>
        LET n == Len(previous.tasks) IN
        /\ Len(tasks) >= n
        /\ SubSeq(tasks, 1, n) = previous.tasks
        /\ \A i \in 1..n : IsCopyFamily(tasks[i])
        /\ \A i \in (n + 1)..Len(tasks) : IsDelete(tasks[i])

\* An Update scan and then a Mirror scan of the same trees returned nil;
\* Update emitted a batch and a Copy, Mirror these and two Delete tasks.
C8_Witness ==
    /\ previous.ran
    /\ previous.mode = ModeUpdate
    /\ args.mode = ModeMirror
    /\ ReturnedNil
    /\ \E i \in 1..Len(previous.tasks) :
          previous.tasks[i].Action = ActionCopyBatch
    /\ Len(tasks) >= Len(previous.tasks) + 2

\* What a copy is in a Sync scan, as the set of its <<group, path>>: group
\* 1 for the copy of the file at path from source to destination, 2 for
\* the copy back of a path that is only at the destination, 3 for the copy
\* back of a shared path; empty for anything else.  paths holds, for every
\* relative path r, the two full paths <<r, Join(SrcRoot, r), Join(DstRoot, r)>>.
SyncGroup(c, paths) ==
    {<<1, p[1]>> : p \in {q \in paths : c = [Source |-> q[2], Destination |-> q[3]]}}
    \cup
    {<<IF IsFile(fsys.src, p[1]) THEN 3 ELSE 2, p[1]>> :
        p \in {q \in paths : c = [Source |-> q[3], Destination |-> q[2]]}}

\* The full paths of every relative path, at the source and at the
\* destination.
BothPaths ==
    LET s == SrcRoot
        d == DstRoot
    IN {<<r, Join(s, r), Join(d, r)>> : r \in RelPaths}

\* C11: in Sync mode the copies of the stream, read in order, are the
\* copies from source to destination, then the copies back of the keys
\* that are only at the destination, then the copies back of the shared
\* keys; within each group the keys (which share their prefix, so that
\* they are ordered as the paths below the root are) ascend strictly.
C11_SyncGroupsInOrder ==
    (args.mode = ModeSync /\ Len(tasks) > 0) =>
        LET cs == CopiesOf(tasks)
            paths == BothPaths
            at == UNION {{<<i, x>> : x \in SyncGroup(cs[i], paths)} :
                            i \in 1..Len(cs)}
        IN /\ \A i \in 1..Len(cs) : \E a \in at : a[1] = i
           /\ \A a \in at : \A b \in at :
                 a[1] < b[1] => /\ a[2][1] <= b[2][1]
                                /\ a[2][1] = b[2][1] =>
                                      StringLess(a[2][2], b[2][2])

\* A Sync scan returned nil with a copy of each of the three groups.
C11_Witness ==
    /\ args.mode = ModeSync
    /\ ReturnedNil
    /\ LET cs == CopiesOf(tasks)
           paths == BothPaths
       IN \A g \in {1, 2, 3} :
             \E i \in 1..Len(cs) : \E r \in RelPaths :
                <<g, r>> \in SyncGroup(cs[i], paths)

\* The keys that are a file on both sides with the same size and mtime.
SameOnBothSides ==
    {r \in RelPaths :
        /\ IsFile(fsys.src, r) /\ IsFile(fsys.dst, r)
        /\ fsys.src[r].size = fsys.dst[r].size
        /\ fsys.src[r].mtime = fsys.dst[r].mtime}

\* C12: in every mode no task concerns a key that is a file on both sides
\* with equal size and equal mtime: no copy reads or writes its source or
\* destination path, in a Copy task or in a batch, and no Delete removes
\* its destination path.
C12_EqualFilesYieldNoTask ==
    Len(tasks) > 0 =>
        LET same == SameOnBothSides IN
        same # {} =>
            LET s == SrcRoot
                d == DstRoot
                paths == {Join(s, r) : r \in same} \cup {Join(d, r) : r \in same}
                cs == CopiesOf(tasks)
            IN /\ \A i \in 1..Len(cs) :
                     cs[i].Source \notin paths /\ cs[i].Destination \notin paths
               /\ \A i \in 1..Len(tasks) : tasks[i].Dst \notin paths

\* A Mirror scan returned nil over trees that hold an equal file and, next
\* to it, a file to copy and something to delete.
C12_Witness ==
    /\ args.mode = ModeMirror
    /\ ReturnedNil
    /\ SameOnBothSides # {}
    /\ CopiesOf(tasks) # <<>>
    /\ DeletesOf(tasks) # <<>>

\* ===================================================================
\* Claims about the batcher and the executor's copyBatch
\* ===================================================================

\* The CopyBatch tasks of the stream.
BatchTasks == {i \in 1..Len(tasks) : tasks[i].Action = ActionCopyBatch}

RECURSIVE SumOfSizes(_)
SumOfSizes(entries) ==
    IF entries = <<>> THEN 0
    ELSE Head(entries).Size + SumOfSizes(Tail(entries))

\* C13: with BatchMaxBytes > 0, the sizes of the entries of every emitted
\* CopyBatch add up to at most BatchMaxBytes, whatever the threshold and
\* the sizes of the files added.
C13_BatchWithinMaxBytes ==
    args.opts.BatchMaxBytes > 0 =>
        \A i \in BatchTasks :
            SumOfSizes(tasks[i].Batch.Entries) <= args.opts.BatchMaxBytes

\* C14: every emitted CopyBatch has at least one entry (a Flush with
\* nothing pending sends no task) and, with BatchMaxFiles > 0, at most
\* BatchMaxFiles entries.
C14_BatchEntryCount ==
    \A i \in BatchTasks :
        /\ Len(tasks[i].Batch.Entries) >= 1
        /\ args.opts.BatchMaxFiles > 0 =>
              Len(tasks[i].Batch.Entries) <= args.opts.BatchMaxFiles

\* With BatchMaxFiles = 2, two Adds filled a batch, which was sent, and the
\* third call was a Flush with nothing pending: the stream is that batch.
C14_Witness ==
    /\ args.opts.BatchMaxFiles = 2
    /\ call.op = "Flush" /\ call.n = 3
    /\ scanErr = NoError
    /\ Len(tasks) = 1
    /\ tasks[1].Action = ActionCopyBatch
    /\ Len(tasks[1].Batch.Entries) = 2

\* This step is a call of Add that returned nil.
AddReturnedNil == call'.n # call.n /\ call'.op = "Add" /\ scanErr' = NoError

\* What Flush sends for the batcher as it is: the pending batch, if any.
PendingBatch ==
    IF batcher.entries = <<>> THEN <<>>
    ELSE <<CopyBatchTask(batcher.entries, batcher.buf)>>

\* C15: with batching enabled no entry of a CopyBatch is larger than the
\* threshold, and the Add of a file larger than the threshold sends the
\* pending batch, if there is one, and after it the file's own Copy.
C15_LargeFilesBypassBatch ==
    /\ [](enabled(args.opts) =>
             \A i \in BatchTasks :
                 \A j \in 1..Len(tasks[i].Batch.Entries) :
                     tasks[i].Batch.Entries[j].Size <= args.opts.BatchThreshold)
    /\ [][(/\ AddReturnedNil
           /\ enabled(args.opts)
           /\ call'.size > args.opts.BatchThreshold) =>
              tasks' = tasks \o PendingBatch
                             \o <<CopyTask(call'.src, call'.dst)>>]_vars

\* A file over the threshold was added while an entry was pending: the
\* stream ends with the batch and then the file's Copy.
C15_Witness ==
    /\ enabled(args.opts)
    /\ call.op = "Add"
    /\ call.size > args.opts.BatchThreshold
    /\ scanErr = NoError
    /\ Len(tasks) >= 2
    /\ tasks[Len(tasks)] = CopyTask(call.src, call.dst)
    /\ tasks[Len(tasks) - 1].Action = ActionCopyBatch

C17_BatchRunRestoresFiles ==
    run.task # 0 =>
        /\ run.err = NoError
        /\ \A j \in 1..Len(tasks[run.task].Batch.Entries) :
              LET entry == tasks[run.task].Batch.Entries[j] IN
              /\ entry.Destination \in DOMAIN run.files
              /\ run.files[entry.Destination] =
                    FileBytes(entry.Source, entry.Size)

\* The executor ran a batch of two files in a directory below the
\* destination root.
C17_Witness ==
    /\ run.task # 0
    /\ run.err = NoError
    /\ Len(tasks[run.task].Batch.Entries) = 2
    /\ Cardinality(DOMAIN run.files) = 2

\* This step is a call of the batcher.
IsCall == call'.n # call.n

\* C18: with batching disabled (BatchThreshold <= 0), whatever
\* BatchMaxFiles and BatchMaxBytes are, every Add returns nil having sent
\* exactly one Copy, of its own file, every Flush sends nothing, and the
\* stream never holds a CopyBatch.
C18_DisabledBatcherCopiesOnly ==
    /\ [](~enabled(args.opts) => BatchTasks = {})
    /\ [][(~enabled(args.opts) /\ IsCall) =>
             /\ scanErr' = NoError
             /\ call'.op = "Add" =>
                   tasks' = Append(tasks, CopyTask(call'.src, call'.dst))
             /\ call'.op = "Flush" => tasks' = tasks]_vars

\* With a threshold of zero and both limits set, an empty file and another
\* file were added and the batcher was flushed twice: two Copy tasks.
C18_Witness ==
    /\ args.opts.BatchThreshold = 0
    /\ args.opts.BatchMaxFiles > 0
    /\ args.opts.BatchMaxBytes > 0
    /\ call.n = 4 /\ call.op = "Flush"
    /\ Len(tasks) = 2
    /\ tasks[1].Action = ActionCopy /\ tasks[2].Action = ActionCopy

\* C19: whenever Add returns an I/O error (the source cannot be opened, the
\* tar header cannot be written, the bytes cannot be copied) the batcher
\* has been reset: no entry pending, no byte pending, an empty buffer.
C19_AddErrorResetsBatcher ==
    (call.op = "Add" /\ scanErr \in {"open", "header", "copy"}) =>
        /\ batcher.entries = <<>>
        /\ batcher.totalBytes = 0
        /\ batcher.buf = <<>>

\* The entries of the CopyBatch tasks of a stream.
BatchedEntries(ts) ==
    UNION {Range(ts[i].Batch.Entries) :
              i \in {j \in 1..Len(ts) : ts[j].Action = ActionCopyBatch}}

\* C20: once Scan meets an error it returns that error and sends no
\* further task, and the entries pending in the batcher when the error
\* occurred (those the failing call found pending and did not send before
\* it failed, and those it left pending) are in no CopyBatch of the stream.
C20_ErrorEndsTheStream ==
    /\ [](scanErr # NoError => spc = "returned")
    /\ [][scanErr # NoError => tasks' = tasks]_vars
    /\ [][(scanErr = NoError /\ scanErr' # NoError) =>
             LET left == Range(batcher'.entries) \cup
                             (IF tasks' = tasks THEN Range(batcher.entries)
                              ELSE {})
             IN left \cap BatchedEntries(tasks') = {}]_vars

\* A Sync scan had sent a Copy and held an entry pending when a source
\* could not be opened: it returned the error with the entry unsent.
C20_Witness ==
    /\ spc = "returned"
    /\ scanErr = "open"
    /\ batcher.entries # <<>>
    /\ tasks # <<>>

\* ===================================================================
\* Claims about Scan's arguments, roots and channel
\* ===================================================================

\* Scan was called with arguments or roots it has to refuse.
Refused ==
    \/ args.src = <<>>
    \/ args.dst = <<>>
    \/ fsys.srcRoot = "file"
    \/ fsys.dstRoot = "file"

\* C21: Scan called with an empty src or dst, or with a source or
\* destination root that exists but is not a directory, returns an error
\* and has sent no task.
C21_RefusedScanSendsNothing ==
    (Refused /\ spc # "idle") =>
        /\ spc = "returned"
        /\ scanErr # NoError
        /\ tasks = <<>>

\* Scan returned an error for a destination root that is not a directory,
\* the source being a directory with a file to copy.
C21_Witness ==
    /\ args.src # <<>> /\ args.dst # <<>>
    /\ fsys.srcRoot = "dir"
    /\ fsys.dstRoot = "file"
    /\ \E r \in RelPaths : IsFile(fsys.src, r)
    /\ spc = "returned"
    /\ scanErr = "not a directory"

C23_ScanLeavesChannelOpen == ~tasksClosed

\* Scan returned an error after it had sent tasks, and the channel is open.
C23_Witness ==
    /\ spc = "returned"
    /\ scanErr # NoError
    /\ tasks # <<>>
    /\ ~tasksClosed

\* ===================================================================
\* Claims about the Report
\* ===================================================================
RECURSIVE SumOfBytes(_)
SumOfBytes(trs) ==
    IF trs = <<>> THEN 0 ELSE Head(trs).Bytes + SumOfBytes(Tail(trs))

\* C24: after any sequence of Record and Finalize calls on a Report,
\* totalBytes is the sum of Bytes over the reports in copies; recording a
\* Delete report, a report with an unknown action or nil leaves totalBytes
\* as it was.
C24_TotalBytesIsSumOfCopies ==
    /\ \A on \in {"r", "restored"} :
          rep[on] # NoReport =>
              rep[on].totalBytes = SumOfBytes(ListView(heap, rep[on].copies))
    /\ (rep.last.op = "Record"
          /\ rep.last.res.Action \notin {ActionCopy, ActionCopyBatch}) =>
              rep[rep.last.on].totalBytes = rep.last.bytesBefore

\* A Delete report that carries a byte count was recorded after a copy.
C24_Witness ==
    /\ rep.last.op = "Record"
    /\ rep.last.res.Action = ActionDelete
    /\ rep.last.res.Bytes > 0
    /\ rep.r.totalBytes > 0
    /\ rep.r.deletes.len > 0

\* C30: the Report restored from r's snapshot has r's StartedAt,
\* CompletedAt, TotalBytes, CopyCount and DeleteCount, and whatever is
\* recorded into the restored Report (or sorted by its Finalize) afterwards,
\* r shows what it showed when the snapshot was taken.
C30_SnapshotRoundTrip ==
    rep.restored # NoReport =>
        /\ rep.fresh.StartedAt = rep.saved.StartedAt
        /\ rep.fresh.CompletedAt = rep.saved.CompletedAt
        /\ rep.fresh.totalBytes = rep.saved.totalBytes
        /\ Len(rep.fresh.copies) = Len(rep.saved.copies)
        /\ Len(rep.fresh.deletes) = Len(rep.saved.deletes)
        /\ View(heap, rep.r) = rep.saved

\* A finalized Report with a copy and a delete was restored from its
\* snapshot, and a batch report was recorded into the restored Report.
C30_Witness ==
    /\ rep.restored # NoReport
    /\ rep.saved.CompletedAt # 0
    /\ Len(rep.saved.copies) = 1
    /\ Len(rep.saved.deletes) = 1
    /\ rep.last.op = "Record"
    /\ rep.last.on = "restored"
    /\ rep.last.res.Action = ActionCopyBatch
    /\ rep.restored.copies.len = 2

\* ===================================================================
\* Claims about the executor
\* ===================================================================

\* C28: when Sync or Close on the destination file of a Copy task returned
\* an error, RunTask returned an error and no TaskReport, on the zero-copy
\* path and on the buffered path.
C28_SyncOrCloseFailureFailsTask ==
    (cf.pc = "done" /\ (cf.out.sync = "failed" \/ cf.out.close = "failed")) =>
        /\ cf.out.err # NoError
        /\ ~cf.out.report

RECURSIVE SumOfEntrySizes(_)
SumOfEntrySizes(entries) ==
    IF entries = <<>> THEN 0
    ELSE Head(entries).Size + SumOfEntrySizes(Tail(entries))

\* C29: when the executor has run a CopyBatch task without error, the file
\* at each entry's destination has exactly the entry's size in bytes,
\* whatever the tar header says, and the bytes reported are the sum of the
\* entries' sizes.
C29_BatchWritesEntrySizes ==
    (run.task # 0 /\ run.err = NoError) =>
        LET entries == tasks[run.task].Batch.Entries IN
        /\ \A j \in 1..Len(entries) :
              /\ entries[j].Destination \in DOMAIN run.files
              /\ Len(run.files[entries[j].Destination]) = entries[j].Size
        /\ run.bytes = SumOfEntrySizes(entries)

\* ===================================================================
\* Claims about what Pool.Run reports and executes
\* ===================================================================
\* The tasks RunTask was called on, by action.
ProcessedCopies == {e \in executed : e.Action \in {ActionCopy, ActionCopyBatch}}
ProcessedDeletes == {e \in executed : e.Action = ActionDelete}

\* C25 as stated: after Pool.Run returns, report.copies has one report per
\* Copy or CopyBatch task the workers processed and report.deletes one per
\* Delete task processed.
C25_ReportCountsProcessed ==
    ret.returned =>
        /\ Len(ret.report.copies) = Cardinality(ProcessedCopies)
        /\ Len(ret.report.deletes) = Cardinality(ProcessedDeletes)

\* C25, amended: after Pool.Run returns, report.copies has one report per
\* Copy or CopyBatch task for which RunTask returned no error, and
\* report.deletes one per Delete task for which it returned no error; a
\* task that failed is in neither list.
C25_ReportCountsSucceeded ==
    ret.returned =>
        /\ Len(ret.report.copies)
              = Cardinality({e \in ProcessedCopies : e.ok})
        /\ Len(ret.report.deletes)
              = Cardinality({e \in ProcessedDeletes : e.ok})
        /\ \A i \in 1..Len(ret.report.copies) :
              ret.report.copies[i].Action \in {ActionCopy, ActionCopyBatch}
        /\ \A i \in 1..Len(ret.report.deletes) :
              ret.report.deletes[i].Action = ActionDelete

\* Run returned after two workers ran a copy, a delete and a task that
\* failed.
C25_Witness ==
    /\ ret.returned
    /\ Workers = 2
    /\ Len(ret.report.copies) = 1
    /\ Len(ret.report.deletes) = 1
    /\ \E e \in executed : ~e.ok

\* C26: no task is executed twice, nothing is executed that was not sent,
\* and once Run has returned (the channel then being closed) every task
\* that was sent has been executed.
C26_ExecutedExactlyOnce ==
    /\ \A e1 \in executed : \A e2 \in executed :
          e1.task = e2.task => e1 = e2
    /\ \A e \in executed : e.task \in 1..sent
    /\ ret.returned =>
          /\ tasksClosed
          /\ \A i \in 1..sent : \E e \in executed : e.task = i

\* Run returned after two workers executed three tasks between them.
C26_Witness ==
    /\ ret.returned
    /\ Workers = 2
    /\ sent = 3
    /\ Cardinality(executed) = 3

\* ===================================================================
\* Claims about where Scan's tasks write
\* ===================================================================
\* The (source, destination) pairs a task names: its own Src and Dst and,
\* for a CopyBatch, those of every entry.
PairsOf(t) ==
    {<<t.Src, t.Dst>>}
        \cup {<<t.Batch.Entries[j].Source, t.Batch.Entries[j].Destination>> :
                 j \in 1..Len(t.Batch.Entries)}

\* C27: every destination named by a task Scan sends, Task.Dst and the
\* destination of every CopyBatch entry, lies below the destination root
\* (the cleaned dst, joined with the base name of the source when
\* includeDir is in effect), except in Sync for the copies from the
\* destination to the source, which lie below the cleaned source root.
C27_DestinationsUnderRoot ==
    [][LET d == DstRoot \o <<PathSeparator>>
           s == SrcRoot \o <<PathSeparator>>
       IN \A i \in (Len(tasks) + 1)..Len(tasks') :
             \A p \in PairsOf(tasks'[i]) :
                \/ HasPrefix(p[2], d)
                \/ /\ args.mode = ModeSync
                   /\ tasks'[i].Action # ActionDelete
                   /\ HasPrefix(p[1], d)
                   /\ HasPrefix(p[2], s)]_vars

\* A Sync with includeDir that sent a copy towards the destination and a
\* copy back to the source.
C27_Witness ==
    /\ ReturnedNil
    /\ args.mode = ModeSync
    /\ args.includeDir
    /\ \E i \in 1..Len(tasks) : IsBelow(tasks[i].Dst, DstRoot)
    /\ \E i \in 1..Len(tasks) : IsBelow(tasks[i].Dst, SrcRoot)

\* ===================================================================
\* Claims about the batch tuner
\* ===================================================================
\* A limit was set by hand on the command line.
ManualLimit ==
    \/ tuning.flags.batchThreshold # 0
    \/ tuning.flags.batchMaxFiles # 0
    \/ tuning.flags.batchMaxBytes # 0

\* The source files of at most the small-file cutoff.
SmallSrcFiles == {i \in 1..Len(tuning.sizes) : tuning.sizes[i] <= SmallFileCutoff}

\* C31: the tuner returns the options unchanged whenever autoTune is false,
\* or one of threshold, maxFiles, maxBytes is already non-zero, or fewer
\* than 4 source files have a size of at most 512 KiB; so the limits it
\* returns are then the ones given on the command line, and a limit set
\* by hand is never replaced by a tuned one.
C31_TunerLeavesOptionsAlone ==
    (/\ tuning.pc = "tuned"
     /\ \/ ~tuning.opts.AutoTuneBatching
        \/ ManualLimit
        \/ Cardinality(SmallSrcFiles) < SmallFilesNeeded)
        => /\ tuning.out = tuning.opts
           /\ tuning.out.BatchThreshold = tuning.flags.batchThreshold
           /\ tuning.out.BatchMaxFiles = tuning.flags.batchMaxFiles
           /\ tuning.out.BatchMaxBytes = tuning.flags.batchMaxBytes

\* Auto-tuning is on and there are enough small files, and only the limit
\* on the number of files, set by hand, keeps the tuner from tuning.
C31_Witness ==
    /\ tuning.pc = "tuned"
    /\ tuning.opts.AutoTuneBatching
    /\ tuning.flags.batchMaxFiles # 0
    /\ tuning.flags.batchThreshold = 0
    /\ tuning.flags.batchMaxBytes = 0
    /\ Cardinality(SmallSrcFiles) >= SmallFilesNeeded
    /\ \A i \in 1..Len(tuning.sizes) : tuning.sizes[i] >= 0
    /\ tuning.out = tuning.opts

\* ===================================================================
\* Claims about Report.Finalize
\* ===================================================================
\* The Reports there are: the one from NewReport, the restored one.
ReportsMade == {on \in {"r", "restored"} : rep[on] # NoReport}

\* C32: after Finalize the copies and the deletes are each in ascending
\* order of Destination and CompletedAt is set; a CompletedAt that is set
\* is never changed; and a Finalize that follows a Finalize of the same
\* Report changes nothing of it.
C32_FinalizeSortsAndStampsOnce ==
    [][/\ rep'.last.op = "Finalize" =>
             LET r == rep'[rep'.last.on] IN
             /\ IsSortedByDestination(Elems(heap', r.copies))
             /\ IsSortedByDestination(Elems(heap', r.deletes))
             /\ r.CompletedAt # 0
       /\ \A on \in ReportsMade :
             rep[on].CompletedAt # 0 => rep'[on].CompletedAt = rep[on].CompletedAt
       /\ (rep.last.op = "Finalize" /\ rep'.last = rep.last)
             => View(heap', rep'[rep.last.on]) = View(heap, rep[rep.last.on])
      ]_vars

\* A Report was finalized whose copies were recorded out of order and
\* hold two different reports with the same Destination.
C32_Witness ==
    /\ rep.last.op = "Finalize"
    /\ rep.last.on = "r"
    /\ rep.r.CompletedAt # 0
    /\ LET cs == Elems(heap, rep.r.copies) IN
       /\ Len(cs) = 3
       /\ cs[1].Destination = cs[2].Destination
       /\ cs[1].Bytes # cs[2].Bytes
       /\ cs[3].Destination = <<2, 0>>

\* ===================================================================
\* Claims about the goroutines of Pool.Run
\* ===================================================================
\* The goroutines that may touch the Report in a state: the collector
\* while it ranges over results, Run once it has reached Finalize.
ReportUsers ==
    (IF cpc = "recv" THEN {"collector"} ELSE {})
        \cup (IF mpc \in {"finalize", "returned"} THEN {"run"} ELSE {})

\* C33: results is closed only after every worker has exited, so no worker
\* stands at a send (on results or on errs) once a channel is closed;
\* Run reaches Finalize and its return only after the collector has ended
\* with every report that was sent merged; and at no time do the collector
\* and Run both have the Report in use.
C33_CloseAfterWorkersFinalizeAfterCollector ==
    /\ resultsClosed => \A w \in WorkerIds : wpc[w] = "exited"
    /\ errsClosed => \A w \in WorkerIds : wpc[w] = "exited"
    /\ mpc \in {"finalize", "returned"} =>
          /\ cpc = "done"
          /\ results = <<>>
          /\ ReportedTasks(report) = SucceededTasks
          /\ Len(report.copies) + Len(report.deletes) = Cardinality(SucceededTasks)
    /\ Cardinality(ReportUsers) <= 1

\* Run stands at Finalize after two workers have exited and the collector
\* has merged two reports, the channels being closed.
C33_Witness ==
    /\ mpc = "finalize"
    /\ Workers = 2
    /\ resultsClosed
    /\ errsClosed
    /\ Cardinality(SucceededTasks) >= 2
    /\ SomeTaskFailed

\* ===================================================================
\* Claims about the arrays of the batcher
\* ===================================================================
\* The CopyBatch tasks sent so far, as they were when they were sent.
SentBatches == SelectSeq(tasks, LAMBDA t : t.Action = ActionCopyBatch)

\* The batcher's own slices show what the batcher holds.
StoreFollowsBatcher ==
    /\ Elems(heap, store.entries) = batcher.entries
    /\ Elems(heap, store.buf) = batcher.buf

\* C34: the entries and the archive of every CopyBatch task that was sent
\* still read as they did when the task was sent, after every later Add,
\* Flush and reset of the batcher.
C34_SentBatchKeepsItsArrays ==
    /\ Len(store.sent) = Len(SentBatches)
    /\ \A k \in 1..Len(store.sent) :
          /\ Elems(heap, store.sent[k].Entries) = SentBatches[k].Batch.Entries
          /\ Elems(heap, store.sent[k].Archive) = SentBatches[k].Batch.Archive
    /\ StoreFollowsBatcher

\* A batch was sent, and after it the batcher took another file into the
\* buffer it goes on using.
C34_Witness ==
    /\ Len(store.sent) >= 1
    /\ store.buf.len >= 1
    /\ store.buf.arr # 0
    /\ Len(SentBatches) >= 2
    /\ batcher.entries # <<>>

\* ===================================================================
\* Claims about the bandwidth limit
\* ===================================================================
\* Copy c writes its chunk in this step.
WritesChunk(c) == pace.copy[c].pc = "chunk" /\ pace'.copy[c].pc # "chunk"

\* C35 as stated: with a limit L > 0, when a chunk of a copy is written the
\* time elapsed since that copy started is at least (bytes written so far
\* including the chunk) / L seconds.
C35_ElapsedAtLeastBytesOverLimit ==
    [][\A c \in Copiers :
          WritesChunk(c) =>
              pace.copy[c].elapsed * pace.limit
                  >= (pace.copy[c].written + pace.copy[c].n) * TicksPerSecond
      ]_vars

\* C35 as amended: when a chunk of a copy is written the time elapsed
\* since that copy started is at least (bytes written so far including the
\* chunk) / L seconds rounded down to a whole unit of the clock; every
\* call starts with no time elapsed and no bytes written, and a step of
\* one copy changes nothing of a copy that runs at the same time.
C35_ElapsedAtLeastTruncatedShare ==
    [][\A c \in Copiers :
          LET k == pace.copy[c]
              k2 == pace'.copy[c] IN
          /\ WritesChunk(c) =>
                (k.elapsed + 1) * pace.limit > (k.written + k.n) * TicksPerSecond
          /\ (k.pc \in {"idle", "done"} /\ k2.pc = "loop") =>
                (k2.elapsed = 0 /\ k2.written = 0)
          /\ k2.pc # k.pc =>
                \A d \in Copiers \ {c} : pace'.copy[d] = pace.copy[d]
      ]_vars

\* Under a limit of two bytes a second, a copy that has written one byte
\* has slept until a full second has elapsed and now writes its second
\* byte, while the other copy, started at another time, is at a chunk too.
C35_Witness ==
    /\ pace.limit = 2
    /\ pace.copy[1].pc = "chunk"
    /\ pace.copy[1].written = 1
    /\ pace.copy[1].n = 1
    /\ pace.copy[1].wake = TicksPerSecond
    /\ pace.copy[1].elapsed = TicksPerSecond
    /\ pace.copy[2].pc = "chunk"
    /\ pace.copy[2].elapsed # pace.copy[1].elapsed

\* ===================================================================
\* Claims about Config.AgentAllowedTokens
\* ===================================================================
\* The tokens the claim names for the agent asked for: its own, those of
\* the existing pools it lists, those of the pools that name it.
NamedTokens ==
    LET c == conf.c
        a == conf.agentID
        own == IF a \in DOMAIN c.Agents THEN {c.Agents[a].Token} ELSE {}
        listed == IF a \in DOMAIN c.Agents
                  THEN {c.Pools[n].Token :
                           n \in {x \in DOMAIN c.Pools :
                                     \E i \in 1..Len(c.Agents[a].Pools) :
                                         c.Agents[a].Pools[i] = x}}
                  ELSE {}
        naming == {c.Pools[n].Token :
                      n \in {x \in DOMAIN c.Pools :
                                \E i \in 1..Len(c.Pools[x].Agents) :
                                    c.Pools[x].Agents[i] = a}}
    IN own \cup listed \cup naming

\* A token with the white space at its ends cut off.
Trimmed(t) ==
    LET first == {i \in 1..Len(t) : ~IsSpace(t[i])} IN
    IF first = {} THEN <<>>
    ELSE SubSeq(t, CHOOSE i \in first : \A j \in first : i <= j,
                   CHOOSE i \in first : \A j \in first : i >= j)

\* C36: AgentAllowedTokens(agent) returns, in ascending order and without
\* duplicates, exactly the non-blank trimmed tokens of the agent itself,
\* of every existing pool the agent lists and of every pool whose Agents
\* list names the agent.  The list is fixed by the Config and the agent,
\* so every call returns the same.
C36_AllowedTokensSortedAndExact ==
    conf.pc = "called" =>
        /\ \A i \in 1..(Len(conf.out) - 1) : StringLess(conf.out[i], conf.out[i + 1])
        /\ Range(conf.out) = {Trimmed(t) : t \in NamedTokens} \ {<<>>}

\* The agent has a token with a space to cut, lists a pool that exists and
\* one that does not, and is named by a pool it does not list; one pool's
\* token is blank.
C36_Witness ==
    /\ conf.pc = "called"
    /\ conf.agentID = <<120>>
    /\ <<120>> \in DOMAIN conf.c.Agents
    /\ conf.c.Agents[<<120>>].Token = <<32, 97>>
    /\ conf.c.Agents[<<120>>].Pools = <<<<114>>, <<112>>>>
    /\ DOMAIN conf.c.Pools = {<<112>>, <<113>>}
    /\ conf.c.Pools[<<112>>].Token = <<32>>
    /\ conf.c.Pools[<<113>>].Token = <<98, 32>>
    /\ conf.c.Pools[<<113>>].Agents = <<<<121>>, <<120>>>>
    /\ conf.out = <<<<97>>, <<98>>>>

\* ---------------------------------------------------------------------
\* Claims about the whole stream of one scan
\* ---------------------------------------------------------------------

\* The number of places of a sequence that hold x.
Count(s, x) == Cardinality({i \in 1..Len(s) : s[i] = x})

\* C37: in Sync mode every key gets at most one copy from Scan: the copy
\* from the source to the destination and the copy from the destination
\* to the source are never both in the stream of one scan.
C37_AtMostOneCopyPerKey ==
    args.mode = ModeSync =>
        LET cs == CopiesOf(tasks)
        IN \A r \in RelPaths :
              Count(cs, SrcToDst(r)) + Count(cs, DstToSrc(r)) <= 1

\* C38: in Mirror mode no Delete task of a scan names the destination of a
\* copy of the same scan (a Copy task or an entry of a CopyBatch), nor a
\* directory above it.
C38_NoDeleteAtOrAboveACopy ==
    args.mode = ModeMirror =>
        LET cs == CopiesOf(tasks)
            ds == DeletesOf(tasks)
        IN \A i \in 1..Len(ds) : \A j \in 1..Len(cs) :
              /\ cs[j].Destination # ds[i]
              /\ ~HasPrefix(cs[j].Destination, ds[i] \o <<PathSeparator>>)

\* The second of the two scans, the one with batching disabled, returned
\* nil after the first, with batching enabled, had.
UnbatchedAfterBatched ==
    /\ previous.ran
    /\ previous.mode = args.mode
    /\ ~enabled(args.opts)
    /\ ReturnedNil

\* C39: whenever Scan returns nil with batching enabled, its Copy tasks
\* and CopyBatch entries read in order are the (source, destination)
\* pairs, in the same order, of the Copy tasks Scan sends for the same
\* trees and mode with batching disabled; the batcher holds no entry at
\* the return; and the Delete tasks of the two scans are the same ones
\* (their order among themselves is not fixed by Scan).
C39_BatchedStreamIsThePlainStream ==
    /\ ReturnedNil => (batcher.entries = <<>> /\ batcher.totalBytes = 0)
    /\ UnbatchedAfterBatched =>
          /\ \A i \in 1..Len(tasks) : tasks[i].Action # ActionCopyBatch
          /\ CopiesOf(previous.tasks) = CopiesOf(tasks)
          /\ Len(DeletesOf(previous.tasks)) = Len(DeletesOf(tasks))
          /\ Range(DeletesOf(previous.tasks)) = Range(DeletesOf(tasks))

\* A scan that batched two files, sent a large one as a Copy between two
\* batches and deleted a file, followed by the scan with batching
\* disabled of the same trees.
C39_Witness ==
    /\ UnbatchedAfterBatched
    /\ \E i \in 1..Len(previous.tasks) : \E j \in 1..Len(previous.tasks) :
          /\ previous.tasks[i].Action = ActionCopyBatch
          /\ previous.tasks[j].Action = ActionCopy
    /\ Len(CopiesOf(tasks)) >= 2
    /\ Len(DeletesOf(tasks)) >= 1

IsPrefixOf(s, t) == Len(s) <= Len(t) /\ s = SubSeq(t, 1, Len(s))

\* The scan that runs beside the workers.
BesideWorkers == previous.ran /\ spc # "idle"

\* C40: both snapshots are taken before Scan sends its first task and
\* every decision is made from them, so what the workers do to the trees
\* while they execute the tasks of a pass changes no decision of that
\* pass: the copies Scan has sent are at every moment the first copies,
\* in order, of the scan of the same inputs that ran alone, its Delete
\* tasks are Delete tasks of that scan, and a pass that returns nil has
\* sent all of them.
C40_DecisionsComeFromTheSnapshot ==
    BesideWorkers =>
        LET cs == CopiesOf(tasks)
            ds == DeletesOf(tasks)
            cs0 == CopiesOf(previous.tasks)
            ds0 == DeletesOf(previous.tasks)
        IN /\ executed # {} => sc # NoLocals
           /\ IsPrefixOf(cs, cs0)
           /\ Range(ds) \subseteq Range(ds0)
           /\ Len(ds) <= Len(ds0)
           /\ ReturnedNil => (cs = cs0 /\ Len(ds) = Len(ds0))

\* A Sync pass returned nil whose copy towards the destination was
\* executed, changing the destination tree, before Scan decided on the
\* copies back to the source.
C40_Witness ==
    /\ BesideWorkers
    /\ ReturnedNil
    /\ args.mode = ModeSync
    /\ \E r \in RelPaths :
          /\ fsys.dst[r].mtime = Later
          /\ \E i \in 1..Len(tasks) :
                /\ i \notin executed
                /\ DstToSrc(r) \in Range(CopiesOf(<<tasks[i]>>))
====
